---- MODULE Spec2Model ----
(***************************************************************************)
(* Model of the session/auth context of event-platform-web                *)
(* (src/src/lib/auth.tsx, AuthProvider) together with the RegisterPage     *)
(* submit handler (src/src/app/register/page.tsx).                         *)
(*                                                                         *)
(* React state (token, user, loading) is held in the variables of the same *)
(* names.  A handler's setState calls are committed by the handler's       *)
(* action; the token effect (useEffect with deps [token]) that such a      *)
(* commit schedules is a separate step: it is queued in tokenEffects with  *)
(* the token value its closure captured and runs later, in order.          *)
(* Requests that are awaited (/auth/me, /auth/login, /auth/register) are   *)
(* bags of in-flight requests; the backend answers each one with success   *)
(* or failure at any later time, in any order.                             *)
(*                                                                         *)
(* The other components (the request helper api, the upload helper, the    *)
(* pages) have their own variables and their own specifications; in the    *)
(* specification of one component the variables of the others stay idle.   *)
(***************************************************************************)
EXTENDS Bags, FiniteSets, Integers, Sequences, TLC

\* ---------------------------------------------------------------- bounds
MaxLoginCalls == 1      \* direct calls of login by pages
MaxRegisterCalls == 1   \* calls of register by RegisterPage
MaxRefreshCalls == 1    \* calls of the refreshMe exposed by the context
MaxOrgCalls == 2        \* organizer dashboard: clicks on Refresh, on a main
                        \* tab and on a dialog's confirm button, together
MaxSeats == 3           \* remainingSeats of the event shown at checkout
MaxCheckouts == 1       \* clicks on Create Transaction
MaxVoucherCalls == 2    \* voucher page: accepted create/update/delete prompts
MaxTrxItems == 2        \* transactions in a response of /organizer/transactions
MaxEventItems == 2      \* events in a response of /organizer/events
MaxClock == 4           \* how far the wall clock of the events tab runs
MaxHpInputs == 3        \* input changes on the listing view
MaxCdTicks == 4         \* clock steps on the customer dashboard
MaxCdClicks == 2        \* clicks on Submit Proof

\* ------------------------------------------------------------ value sets
Null == "null"                       \* JavaScript null / absent storage key
Undefined == "undefined"             \* a field missing from a response

Tokens == {"tA", "tB"}               \* bearer token values
Messages == {"m1", "m2"}             \* error messages raised by api

\* setUser(null)
NullUser ==
    [id |-> 0, name |-> Null, email |-> Null, role |-> Null,
     referralCode |-> Null, avatarUrl |-> Null]

\* type User of auth.tsx: the profiles the backend can answer /auth/me with
Users ==
    { [id |-> 1, name |-> "n1", email |-> "e1", role |-> "CUSTOMER",
       referralCode |-> "r1", avatarUrl |-> Null],
      [id |-> 2, name |-> "n2", email |-> "e2", role |-> "ORGANIZER",
       referralCode |-> "r2", avatarUrl |-> "a2"] }

\* bodies the backend can answer /auth/login with (res of login)
LoginResponses ==
    { [accessToken |-> "tA", id |-> 1, name |-> "n1", email |-> "e1",
       role |-> "CUSTOMER", referralCode |-> "r1", avatarUrl |-> Undefined],
      [accessToken |-> "tB", id |-> 2, name |-> "n2", email |-> "e2",
       role |-> "ORGANIZER", referralCode |-> "r2", avatarUrl |-> "a2"] }

NoRes ==
    [accessToken |-> Null, id |-> 0, name |-> Null, email |-> Null,
     role |-> Null, referralCode |-> Null, avatarUrl |-> Null]

\* payloads RegisterPage passes to register (the fields login reads)
Payloads ==
    { [email |-> "e1", password |-> "p1"],
      [email |-> "e2", password |-> "p2"] }

VARIABLES
    token,          \* useState token
    user,           \* useState user
    loading,        \* useState loading
    storage,        \* localStorage key "token"
    mounted,        \* the mount effects of AuthProvider have run
    tokenEffects,   \* queued runs of the token effect, each with its token
    meInFlight,     \* bag of /auth/me requests [tok, auto, cause]: auto is
                    \* TRUE for the token effect's call, cause is the
                    \* handler whose commit scheduled that effect
    loginInFlight,  \* bag of /auth/login requests [email, password, reg]
    registerInFlight, \* bag of /auth/register requests (payloads)
    nav,            \* last router.push target
    err,            \* RegisterPage err state
    nLogin, nRegister, nRefresh,   \* calls made so far (bounded)
    ev              \* the last step taken, with its inputs

authVars ==
    <<token, user, loading, storage, mounted, tokenEffects, meInFlight,
      loginInFlight, registerInFlight, nav, err,
      nLogin, nRegister, nRefresh, ev>>

\* ------------------------------------------------- request helper (api)
VARIABLES
    apiPc,          \* "idle", "sent" (fetch awaited) or "done"
    apiVer,         \* which api ran: "lib" (src/lib/api.ts) or "part012"
    apiOpts,        \* the opts api was called with
    apiReq,         \* the request handed to fetch
    apiRes,         \* the response fetch resolved with
    apiOut          \* what api returned or threw

apiVars == <<apiPc, apiVer, apiOpts, apiReq, apiRes, apiOut>>

\* a JavaScript value as api sees it: its type, its message property and
\* where it came from (the text parsed, or the string itself)
JsValue(type, message, src) == [type |-> type, message |-> message, src |-> src]
JsUndefined == JsValue("undefined", Undefined, "")
JsNull == JsValue("null", Undefined, "")

\* an opts.body / a fetch body: its kind and which value it is
Body(kind, id) == [kind |-> kind, id |-> id]
NoBody == Body("undefined", "")

NoOpts == [token |-> <<>>, body |-> NoBody, contentType |-> Undefined]
NoReq == [authorization |-> <<>>, contentType |-> Undefined, body |-> NoBody]
NoResponse == [status |-> 0, contentType |-> "", text |-> ""]
NoOut == [kind |-> "none", val |-> JsUndefined, msg |-> ""]

ApiIdle ==
    /\ apiPc = "idle"
    /\ apiVer = "lib"
    /\ apiOpts = NoOpts
    /\ apiReq = NoReq
    /\ apiRes = NoResponse
    /\ apiOut = NoOut

\* ---------------------------------------- upload helper (cloudinary)
VARIABLES
    uploadPc,       \* "idle", "signing", "uploading", "done" or "failed"
    uploadArgs,     \* file, token and folder hint of the call
    uploadSig,      \* the signed ticket the backend answered with
    uploadLog,      \* the requests issued, in order
    uploadOut       \* what uploadToCloudinary returned or threw

uploadVars == <<uploadPc, uploadArgs, uploadSig, uploadLog, uploadOut>>

NoArgs == [file |-> "", token |-> "", folder |-> ""]
NoSig ==
    [timestamp |-> 0, signature |-> "", cloudName |-> "", apiKey |-> "",
     folder |-> ""]
NoUpload == [kind |-> "none", secureUrl |-> "", publicId |-> "", msg |-> ""]

UploadIdle ==
    /\ uploadPc = "idle"
    /\ uploadArgs = NoArgs
    /\ uploadSig = NoSig
    /\ uploadLog = <<>>
    /\ uploadOut = NoUpload

\* ------------------------------- organizer dashboard (OrganizerPage)
VARIABLES
    orgAuthToken,   \* authToken of the render: token ?? localStorage token
    orgMainTab,     \* mainTab
    orgTrxItems,    \* trxItems: the ids of the pending transactions listed
    orgEvents,      \* events
    orgErr,         \* err, the error text at the top of the page
    orgBusy,        \* busy
    orgStats,       \* stats
    orgStatsErr,    \* statsErr
    orgStatsLoading,\* statsLoading
    orgDialog,      \* the ConfirmDialog that is open (modal), if any
    orgCalls,       \* the async functions that are awaiting something
    orgFetches,     \* the api calls in flight
    orgUnhandled,   \* messages of rejections that nothing caught
    nOrgCalls,      \* Refresh, main tab and confirm clicks so far
    orgEv           \* the last step taken

orgVars ==
    <<orgAuthToken, orgMainTab, orgTrxItems, orgEvents, orgErr, orgBusy,
      orgStats, orgStatsErr, orgStatsLoading, orgDialog, orgCalls,
      orgFetches, orgUnhandled, nOrgCalls, orgEv>>

NoDialog == [op |-> "none", id |-> 0]
NoOrgEvent == [op |-> "none", fn |-> "none", n |-> 0, loader |-> "none",
               msg |-> ""]

OrgIdle ==
    /\ orgAuthToken = Null
    /\ orgMainTab = "transactions"
    /\ orgTrxItems = {}
    /\ orgEvents = {}
    /\ orgErr = Null
    /\ orgBusy = FALSE
    /\ orgStats = Null
    /\ orgStatsErr = Null
    /\ orgStatsLoading = FALSE
    /\ orgDialog = NoDialog
    /\ orgCalls = {}
    /\ orgFetches = {}
    /\ orgUnhandled = {}
    /\ nOrgCalls = 0
    /\ orgEv = NoOrgEvent

\* ------------------------------ event detail / checkout (EventDetailPage)
VARIABLES
    ckToken,        \* token of useAuth()
    ckUser,         \* user.role of useAuth(), or Null when there is no user
    ckData,         \* data: the event loaded, with its remainingSeats
    ckReviews,      \* reviews
    ckErr,          \* err
    ckLoading,      \* loading
    ckQty,          \* qty
    ckPosts,        \* POST /transactions calls in flight
    ckNav,          \* where router.push went last
    nCkPosts,       \* POST /transactions calls so far
    ckEv            \* the last step taken

ckVars ==
    <<ckToken, ckUser, ckData, ckReviews, ckErr, ckLoading, ckQty, ckPosts,
      ckNav, nCkPosts, ckEv>>

NoData == [loaded |-> FALSE, id |-> 0, remainingSeats |-> 0]
NoCkEvent == [op |-> "none", qty |-> 0, msg |-> ""]

CkIdle ==
    /\ ckToken = Null
    /\ ckUser = Null
    /\ ckData = NoData
    /\ ckReviews = Null
    /\ ckErr = Null
    /\ ckLoading = TRUE
    /\ ckQty = 1
    /\ ckPosts = {}
    /\ ckNav = Null
    /\ nCkPosts = 0
    /\ ckEv = NoCkEvent

\* ------------------------------------ reset password (ResetPasswordPage)
VARIABLES
    rpToken,        \* token, the route parameter
    rpPassword,     \* password
    rpConfirm,      \* confirm
    rpErr,          \* err
    rpOk,           \* ok
    rpLoading,      \* loading
    rpReq,          \* the POST /auth/reset-password in flight, if any
    rpEv            \* the last step taken

rpVars ==
    <<rpToken, rpPassword, rpConfirm, rpErr, rpOk, rpLoading, rpReq, rpEv>>

NoRpReq == [sent |-> FALSE, token |-> Null, password |-> ""]

RpIdle ==
    /\ rpToken = Null
    /\ rpPassword = ""
    /\ rpConfirm = ""
    /\ rpErr = Null
    /\ rpOk = Null
    /\ rpLoading = FALSE
    /\ rpReq = NoRpReq
    /\ rpEv = "none"

\* --------------------------- voucher management (OrganizerVouchersPage)
VARIABLES
    vcToken,        \* token of useAuth()
    vcItems,        \* items: the vouchers listed
    vcErr,          \* err
    vcBusy,         \* busy
    vcForm,         \* create form: code, discountAmount, startAt, endAt, maxUses
    vcEditing,      \* editing: the id of the voucher being edited, 0 for null
    vcEditForm,     \* edit form: eCode, eDiscountAmount, eStartAt, eEndAt, eMaxUses
    vcCalls,        \* the async functions awaiting an api call
    nVcCalls,       \* createVoucher / saveEdit / deleteVoucher requests so far
    vcPrompt        \* what window.confirm answered in the last step, if shown

vcVars ==
    <<vcToken, vcItems, vcErr, vcBusy, vcForm, vcEditing, vcEditForm,
      vcCalls, nVcCalls, vcPrompt>>

\* a form: the code as its characters, the number typed as discount, the
\* datetime-local values (0: empty, -1: not a date, else the instant) and
\* the text typed as max-uses
VoucherForm(code, discountAmount, startAt, endAt, maxUses) ==
    [code |-> code, discountAmount |-> discountAmount, startAt |-> startAt,
     endAt |-> endAt, maxUses |-> maxUses]

VcIdle ==
    /\ vcToken = Null
    /\ vcItems = {}
    /\ vcErr = Null
    /\ vcBusy = FALSE
    /\ vcForm = VoucherForm(<<>>, 20000, 0, 0, "")
    /\ vcEditing = 0
    /\ vcEditForm = VoucherForm(<<>>, 0, 0, 0, "")
    /\ vcCalls = {}
    /\ nVcCalls = 0
    /\ vcPrompt = "none"

\* ------------- organizer dashboard, transactions tab (grouped, visibleTrx)
VARIABLES
    trItems,        \* trxItems as fetched, in the order of the response
    trTab           \* trxTab

trVars == <<trItems, trTab>>

TrIdle ==
    /\ trItems = <<>>
    /\ trTab = "pending"

\* ------------------ organizer dashboard, events tab (visibleEvents)
VARIABLES
    oeEvents,       \* events as fetched, in the order of the response
    oeSort,         \* eventSort
    oeFilter,       \* eventFilter
    oeNow,          \* the wall clock
    oeMemoAt,       \* Date.now() when visibleEvents was last computed
    oeVisible       \* visibleEvents, the memo over [events, eventSort, eventFilter]

oeVars == <<oeEvents, oeSort, oeFilter, oeNow, oeMemoAt, oeVisible>>

OeIdle ==
    /\ oeEvents = <<>>
    /\ oeSort = "DATE_ASC"
    /\ oeFilter = "upcoming"
    /\ oeNow = 1
    /\ oeMemoAt = 1
    /\ oeVisible = <<>>

\* ------------------ listing view (HomePage)
VARIABLES
    hpQ,            \* the search input
    hpCategory,     \* the category input
    hpLocation,     \* the location input
    hpDq,           \* the debounced search value
    hpTimers,       \* pending setTimeout callbacks of useDebouncedValue
    hpSince,        \* time since the search input last changed, up to Delay
    hpData,         \* data; of 0 is null
    hpLoading,      \* loading
    hpErr,          \* err
    hpReqs,         \* GET /events requests in flight
    hpLastQs,       \* the query string of the request issued last
    hpLatest,       \* how the request issued last settled
    nHpReqs,        \* requests issued so far
    nHpInputs       \* input changes so far

hpVars == <<hpQ, hpCategory, hpLocation, hpDq, hpTimers, hpSince, hpData,
            hpLoading, hpErr, hpReqs, hpLastQs, hpLatest, nHpReqs,
            nHpInputs>>

\* after the first render and its effects: the debounce timer of the empty
\* input is pending and the request for the empty query string is in flight
HpIdle ==
    /\ hpQ = <<>>
    /\ hpCategory = <<>>
    /\ hpLocation = <<>>
    /\ hpDq = <<>>
    /\ hpTimers = {[value |-> <<>>, left |-> 2]}
    /\ hpSince = 0
    /\ hpData = [of |-> 0, items |-> 0]
    /\ hpLoading = TRUE
    /\ hpErr = "null"
    /\ hpReqs = {[n |-> 1, qs |-> [q |-> <<>>, category |-> <<>>,
                                   location |-> <<>>]]}
    /\ hpLastQs = [q |-> <<>>, category |-> <<>>, location |-> <<>>]
    /\ hpLatest = [settled |-> FALSE, data |-> [of |-> 0, items |-> 0],
                   err |-> "null"]
    /\ nHpReqs = 1
    /\ nHpInputs = 0

\* ------------------ organizer dashboard: access effect (gate)
VARIABLES
    ogSeen,         \* loading, user and authToken of the commit whose access
                    \* effect ran last
    ogRoute,        \* target of the page's router.push, "none" before
    ogErr,          \* err set by the access effect
    ogLoads         \* the access effect has started loading the base data

ogVars == <<ogSeen, ogRoute, ogErr, ogLoads>>

OgIdle ==
    /\ ogSeen = [ran |-> FALSE, loading |-> TRUE, authToken |-> "null",
                 user |-> [id |-> 0, name |-> "null", email |-> "null",
                           role |-> "null", referralCode |-> "null",
                           avatarUrl |-> "null"]]
    /\ ogRoute = "none"
    /\ ogErr = "null"
    /\ ogLoads = FALSE

\* ------------------ customer dashboard: uploadProof, countdown
VARIABLES
    cdToken,        \* token of the auth context
    cdRole,         \* user?.role, "null" without a user
    cdTrx,          \* the transaction shown (items)
    cdFile,         \* selectedFileById[trx.id]
    cdPreview,      \* previewById[trx.id] is set
    cdNow,          \* Date.now(), in milliseconds
    cdNowTs,        \* nowTs, set by the interval
    cdErr,          \* err
    cdUploadingId,  \* uploadingId, 0 for null
    cdStage,        \* uploadProof: "idle", "upload", "post" or "reload"
    cdPosted,       \* the paymentProofUrl values posted, in order
    nCdClicks       \* clicks on Submit Proof so far

cdVars == <<cdToken, cdRole, cdTrx, cdFile, cdPreview, cdNow, cdNowTs, cdErr,
            cdUploadingId, cdStage, cdPosted, nCdClicks>>

CdIdle ==
    /\ cdToken = "null"
    /\ cdRole = "null"
    /\ cdTrx = [id |-> 0, status |-> "null", due |-> 0]
    /\ cdFile = "null"
    /\ cdPreview = FALSE
    /\ cdNow = 0
    /\ cdNowTs = 0
    /\ cdErr = "null"
    /\ cdUploadingId = 0
    /\ cdStage = "idle"
    /\ cdPosted = <<>>
    /\ nCdClicks = 0

vars == <<authVars, apiVars, uploadVars, orgVars, ckVars, rpVars, vcVars, trVars, oeVars, hpVars, ogVars, cdVars>>

\* the variables of the components other than the auth context
pageVars == <<apiVars, uploadVars, orgVars, ckVars, rpVars, vcVars, trVars, oeVars, hpVars, ogVars, cdVars>>
PagesIdle == ApiIdle /\ UploadIdle /\ OrgIdle /\ CkIdle /\ RpIdle /\ VcIdle /\ TrIdle /\ OeIdle /\ HpIdle /\ OgIdle /\ CdIdle

\* the variables a component's steps leave alone
exceptApi == <<authVars, uploadVars, orgVars, ckVars, rpVars, vcVars, trVars, oeVars, hpVars, ogVars, cdVars>>
exceptUpload == <<authVars, apiVars, orgVars, ckVars, rpVars, vcVars, trVars, oeVars, hpVars, ogVars, cdVars>>
exceptOrg == <<authVars, apiVars, uploadVars, ckVars, rpVars, vcVars, trVars, oeVars, hpVars, ogVars, cdVars>>
exceptCk == <<authVars, apiVars, uploadVars, orgVars, rpVars, vcVars, trVars, oeVars, hpVars, ogVars, cdVars>>
exceptRp == <<authVars, apiVars, uploadVars, orgVars, ckVars, vcVars, trVars, oeVars, hpVars, ogVars, cdVars>>
exceptVc == <<authVars, apiVars, uploadVars, orgVars, ckVars, rpVars, trVars, oeVars, hpVars, ogVars, cdVars>>
exceptTr == <<authVars, apiVars, uploadVars, orgVars, ckVars, rpVars, vcVars, oeVars, hpVars, ogVars, cdVars>>
exceptOe == <<authVars, apiVars, uploadVars, orgVars, ckVars, rpVars, vcVars, trVars, hpVars, ogVars, cdVars>>
exceptHp == <<authVars, apiVars, uploadVars, orgVars, ckVars, rpVars, vcVars, trVars, oeVars, ogVars, cdVars>>
exceptOg == <<authVars, apiVars, uploadVars, orgVars, ckVars, rpVars, vcVars, trVars, oeVars, hpVars, cdVars>>
exceptCd == <<authVars, apiVars, uploadVars, orgVars, ckVars, rpVars, vcVars, trVars, oeVars, hpVars, ogVars>>

Event(op, msg, email, password, res, tok) ==
    [op |-> op, msg |-> msg, email |-> email, password |-> password,
     res |-> res, tok |-> tok]

\* the same, for the settling of a login request: reg tells whether the
\* request was register's
LoginEvent(op, msg, r, res, tok) ==
    [Event(op, msg, r.email, r.password, res, tok) EXCEPT !.op =
        IF r.reg THEN op \o "OfRegister" ELSE op]

NoEvent == Event("none", Null, Null, Null, NoRes, Null)

\* the auth context before it is mounted, with nothing persisted
AuthIdle ==
    /\ token = Null /\ user = NullUser /\ loading = TRUE
    /\ storage = Null /\ mounted = FALSE /\ tokenEffects = <<>>
    /\ meInFlight = EmptyBag /\ loginInFlight = EmptyBag
    /\ registerInFlight = EmptyBag /\ nav = Null /\ err = Null
    /\ nLogin = 0 /\ nRegister = 0 /\ nRefresh = 0 /\ ev = NoEvent

\* One request more / one request less in a bag of in-flight requests.
Issue(bag, r) == bag (+) SetToBag({r})
Settle(bag, r) == bag (-) SetToBag({r})

\* Schedule with the dependency comparison lost once a token is held.
ScheduleMut(q, old, new, cause) ==
    IF new # old /\ old = Null
    THEN Append(q, [tok |-> new, cause |-> cause]) ELSE q

\* A commit whose token differs from the previous render's token schedules
\* the token effect (deps [token]) with the new value in its closure.
Schedule(q, old, new, cause) ==
    IF new # old THEN Append(q, [tok |-> new, cause |-> cause]) ELSE q

\* UserFromLogin with the referral code taken from the wrong field.
UserFromLoginMut(res) ==
    [id |-> res.id, name |-> res.name, email |-> res.email,
     role |-> res.role, referralCode |-> res.name,
     avatarUrl |-> IF res.avatarUrl \in {Undefined, Null}
                   THEN Null ELSE res.avatarUrl]

\* login builds the user from the fields of the login response
UserFromLogin(res) ==
    [id |-> res.id, name |-> res.name, email |-> res.email,
     role |-> res.role, referralCode |-> res.referralCode,
     avatarUrl |-> IF res.avatarUrl \in {Undefined, Null}
                   THEN Null ELSE res.avatarUrl]

Init ==
    /\ token = Null
    /\ user = NullUser
    /\ loading = TRUE
    /\ storage \in Tokens \cup {Null}
    /\ mounted = FALSE
    /\ tokenEffects = <<>>
    /\ meInFlight = EmptyBag
    /\ loginInFlight = EmptyBag
    /\ registerInFlight = EmptyBag
    /\ nav = Null
    /\ err = Null
    /\ nLogin = 0
    /\ nRegister = 0
    /\ nRefresh = 0
    /\ ev = NoEvent
    /\ PagesIdle

\* Mount: the init effect reads storage and adopts a persisted token; the
\* token effect of the first render (token = null) runs setUser(null).
Mount ==
    /\ ~mounted
    /\ mounted' = TRUE
    /\ token' = IF storage # Null THEN storage ELSE token
    /\ loading' = FALSE
    /\ user' = NullUser
    /\ tokenEffects' = Schedule(tokenEffects, token, token', "storage")
    /\ ev' = Event("mount", Null, Null, Null, NoRes, token')
    /\ UNCHANGED <<storage, meInFlight, loginInFlight, registerInFlight,
                   nav, err, nLogin, nRegister, nRefresh>>

\* The token effect, run with the token of the render that scheduled it.
\* With a null token it clears the user; otherwise it persists the token
\* and calls refreshMe, whose closure holds the same token.
TokenEffect ==
    /\ mounted
    /\ tokenEffects # <<>>
    /\ LET e == Head(tokenEffects) IN
         /\ tokenEffects' = Tail(tokenEffects)
         /\ IF e.tok = Null
            THEN /\ user' = NullUser
                 /\ UNCHANGED <<storage, meInFlight>>
            ELSE /\ storage' = e.tok
                 /\ meInFlight' =
                      Issue(meInFlight,
                            [tok |-> e.tok, auto |-> TRUE, cause |-> e.cause])
                 /\ UNCHANGED user
         /\ ev' = Event("effect", Null, Null, Null, NoRes, e.tok)
    /\ UNCHANGED <<token, loading, mounted, loginInFlight, registerInFlight,
                   nav, err, nLogin, nRegister, nRefresh>>

\* A consumer calls the refreshMe of the context value: nothing happens
\* without a token, otherwise /auth/me is requested with the token.
RefreshMeCall ==
    /\ mounted
    /\ nRefresh < MaxRefreshCalls
    /\ nRefresh' = nRefresh + 1
    /\ meInFlight' =
         IF token = Null THEN meInFlight
         ELSE Issue(meInFlight,
                    [tok |-> token, auto |-> FALSE, cause |-> "caller"])
    /\ ev' = Event("refreshMe", Null, Null, Null, NoRes, token)
    /\ UNCHANGED <<token, user, loading, storage, mounted, tokenEffects,
                   loginInFlight, registerInFlight, nav, err,
                   nLogin, nRegister>>

\* /auth/me answered: refreshMe continues with setUser(me).
MeOk(r, me) ==
    /\ BagIn(r, meInFlight)
    /\ meInFlight' = Settle(meInFlight, r)
    /\ user' = me
    /\ ev' = Event(IF r.auto THEN "meOk" ELSE "callerMeOk",
                   Null, Null, Null, NoRes, r.tok)
    /\ UNCHANGED <<token, loading, storage, mounted, tokenEffects,
                   loginInFlight, registerInFlight, nav, err,
                   nLogin, nRegister, nRefresh>>

\* MeFail with the catch handler forgetting localStorage.removeItem.
MeFailMut(r) ==
    /\ BagIn(r, meInFlight)
    /\ meInFlight' = Settle(meInFlight, r)
    /\ IF r.auto
       THEN /\ token' = Null
            /\ user' = NullUser
            /\ tokenEffects' = Schedule(tokenEffects, token, Null, "invalid")
            /\ UNCHANGED storage
       ELSE UNCHANGED <<storage, token, user, tokenEffects>>
    /\ ev' = Event(IF r.auto THEN "meFail" ELSE "callerMeFail",
                   Null, Null, Null, NoRes, r.tok)
    /\ UNCHANGED <<loading, mounted, loginInFlight, registerInFlight,
                   nav, err, nLogin, nRegister, nRefresh>>

\* /auth/me rejected.  The token effect's call has a catch handler that
\* removes the storage key and clears token and user (it ignores the error
\* value); the rejection of a consumer's call goes to that consumer and the
\* context does nothing.
MeFail(r) ==
    /\ BagIn(r, meInFlight)
    /\ meInFlight' = Settle(meInFlight, r)
    /\ IF r.auto
       THEN /\ storage' = Null
            /\ token' = Null
            /\ user' = NullUser
            /\ tokenEffects' = Schedule(tokenEffects, token, Null, "invalid")
       ELSE UNCHANGED <<storage, token, user, tokenEffects>>
    /\ ev' = Event(IF r.auto THEN "meFail" ELSE "callerMeFail",
                   Null, Null, Null, NoRes, r.tok)
    /\ UNCHANGED <<loading, mounted, loginInFlight, registerInFlight,
                   nav, err, nLogin, nRegister, nRefresh>>

\* A page calls login(email, password): /auth/login is requested.
LoginCall(email, password) ==
    /\ mounted
    /\ nLogin < MaxLoginCalls
    /\ nLogin' = nLogin + 1
    /\ loginInFlight' =
         Issue(loginInFlight,
               [email |-> email, password |-> password, reg |-> FALSE])
    /\ ev' = Event("login", Null, email, password, NoRes, Null)
    /\ UNCHANGED <<token, user, loading, storage, mounted, tokenEffects,
                   meInFlight, registerInFlight, nav, err,
                   nRegister, nRefresh>>

\* /auth/login answered with res: login adopts res.accessToken, builds the
\* user from res and navigates to "/".
LoginOk(r, res) ==
    /\ BagIn(r, loginInFlight)
    /\ loginInFlight' = Settle(loginInFlight, r)
    /\ token' = res.accessToken
    /\ user' = UserFromLogin(res)
    /\ nav' = "/"
    /\ tokenEffects' = Schedule(tokenEffects, token, token', "login")
    /\ ev' = LoginEvent("loginOk", Null, r, res, token')
    /\ UNCHANGED <<loading, storage, mounted, meInFlight, registerInFlight,
                   err, nLogin, nRegister, nRefresh>>

\* LoginFail that treats a failed login like an invalid token.
LoginFailMut(r, msg) ==
    /\ BagIn(r, loginInFlight)
    /\ loginInFlight' = Settle(loginInFlight, r)
    /\ err' = IF r.reg THEN msg ELSE err
    /\ storage' = Null
    /\ token' = Null
    /\ user' = NullUser
    /\ tokenEffects' = Schedule(tokenEffects, token, Null, "invalid")
    /\ ev' = LoginEvent("loginFail", msg, r, NoRes, Null)
    /\ UNCHANGED <<loading, mounted, meInFlight, registerInFlight, nav,
                   nLogin, nRegister, nRefresh>>

\* /auth/login rejected: api throws, login (and a register awaiting it)
\* rejects with that error; RegisterPage shows the message.
LoginFail(r, msg) ==
    /\ BagIn(r, loginInFlight)
    /\ loginInFlight' = Settle(loginInFlight, r)
    /\ err' = IF r.reg THEN msg ELSE err
    /\ ev' = LoginEvent("loginFail", msg, r, NoRes, Null)
    /\ UNCHANGED <<token, user, loading, storage, mounted, tokenEffects,
                   meInFlight, registerInFlight, nav,
                   nLogin, nRegister, nRefresh>>

\* RegisterPage submit: setErr(null), then register(payload) requests
\* /auth/register.
RegisterCall(payload) ==
    /\ mounted
    /\ nRegister < MaxRegisterCalls
    /\ nRegister' = nRegister + 1
    /\ err' = Null
    /\ registerInFlight' = Issue(registerInFlight, payload)
    /\ ev' = Event("register", Null, payload.email, payload.password,
                   NoRes, Null)
    /\ UNCHANGED <<token, user, loading, storage, mounted, tokenEffects,
                   meInFlight, loginInFlight, nav, nLogin, nRefresh>>

\* LoginOfRegister that does not pass the payload's password on.
LoginOfRegisterMut(payload) ==
    [email |-> payload.email, password |-> "p1", reg |-> TRUE]

\* The /auth/login request register issues once /auth/register succeeded.
LoginOfRegister(payload) ==
    [email |-> payload.email, password |-> payload.password, reg |-> TRUE]

\* /auth/register answered: register goes on to login with the payload's
\* email and password.
RegisterOk(payload) ==
    /\ BagIn(payload, registerInFlight)
    /\ registerInFlight' = Settle(registerInFlight, payload)
    /\ loginInFlight' = Issue(loginInFlight, LoginOfRegister(payload))
    /\ ev' = Event("registerOk", Null, payload.email, payload.password,
                   NoRes, Null)
    /\ UNCHANGED <<token, user, loading, storage, mounted, tokenEffects,
                   meInFlight, nav, err, nLogin, nRegister, nRefresh>>

\* /auth/register rejected: register rejects, RegisterPage shows the
\* message; login is not called.
RegisterFail(payload, msg) ==
    /\ BagIn(payload, registerInFlight)
    /\ registerInFlight' = Settle(registerInFlight, payload)
    /\ err' = msg
    /\ ev' = Event("registerFail", msg, payload.email, payload.password,
                   NoRes, Null)
    /\ UNCHANGED <<token, user, loading, storage, mounted, tokenEffects,
                   meInFlight, loginInFlight, nav,
                   nLogin, nRegister, nRefresh>>

\* Logout that leaves the profile in place.
LogoutMut ==
    /\ mounted
    /\ storage' = Null
    /\ token' = Null
    /\ nav' = "/login"
    /\ tokenEffects' = Schedule(tokenEffects, token, Null, "logout")
    /\ ev' = Event("logout", Null, Null, Null, NoRes, Null)
    /\ UNCHANGED <<user, loading, mounted, meInFlight, loginInFlight,
                   registerInFlight, err, nLogin, nRegister, nRefresh>>

\* logout: remove the storage key, clear token and user, go to /login.
Logout ==
    /\ mounted
    /\ storage' = Null
    /\ token' = Null
    /\ user' = NullUser
    /\ nav' = "/login"
    /\ tokenEffects' = Schedule(tokenEffects, token, Null, "logout")
    /\ ev' = Event("logout", Null, Null, Null, NoRes, Null)
    /\ UNCHANGED <<loading, mounted, meInFlight, loginInFlight,
                   registerInFlight, err, nLogin, nRegister, nRefresh>>

Next ==
    \/ Mount /\ UNCHANGED pageVars
    \/ TokenEffect /\ UNCHANGED pageVars
    \/ RefreshMeCall /\ UNCHANGED pageVars
    \/ \E r \in BagToSet(meInFlight), me \in Users :
         MeOk(r, me) /\ UNCHANGED pageVars
    \/ \E r \in BagToSet(meInFlight) : MeFail(r) /\ UNCHANGED pageVars
    \/ \E c \in Payloads :
         LoginCall(c.email, c.password) /\ UNCHANGED pageVars
    \/ \E r \in BagToSet(loginInFlight), res \in LoginResponses :
         LoginOk(r, res) /\ UNCHANGED pageVars
    \/ \E r \in BagToSet(loginInFlight), msg \in Messages :
         LoginFail(r, msg) /\ UNCHANGED pageVars
    \/ \E p \in Payloads : RegisterCall(p) /\ UNCHANGED pageVars
    \/ \E p \in BagToSet(registerInFlight) :
         RegisterOk(p) /\ UNCHANGED pageVars
    \/ \E p \in BagToSet(registerInFlight), msg \in Messages :
         RegisterFail(p, msg) /\ UNCHANGED pageVars
    \/ Logout /\ UNCHANGED pageVars

Spec == Init /\ [][Next]_vars

TypeOK ==
    /\ token \in Tokens \cup {Null}
    /\ user \in Users \cup {NullUser}
    /\ storage \in Tokens \cup {Null}
    /\ nav \in {Null, "/", "/login"}

\* The scheduling the code relies on: a scheduled effect runs (React
\* flushes passive effects); the backend is not obliged to answer.
FairSpec == Spec /\ WF_vars(TokenEffect /\ UNCHANGED pageVars)

\* -------------------------------------------------------------- helpers
MeSettled == ev.op \in {"meOk", "meFail", "callerMeOk", "callerMeFail"}
LoginOkOps == {"loginOk", "loginOkOfRegister"}
LoginFailOps == {"loginFail", "loginFailOfRegister"}

\* ---------------------------------------------------------------- claims

\* C1: in every reachable state a non-null user implies a non-null token.
C1_UserImpliesToken == user # NullUser => token # Null

\* C2: the completion of an /auth/me fetch issued for a token other than
\* the current non-null token changes neither token, user nor storage.
C2_StaleFetchHarmless ==
    [][ (MeSettled' /\ token # Null /\ ev'.tok # token)
          => UNCHANGED <<token, user, storage>> ]_vars

\* C3: when no token effect is pending, storage holds exactly the
\* in-memory token (absent iff the token is null).
C3_StorageInSync == (mounted /\ tokenEffects = <<>>) => storage = token

\* C4: whenever /auth/me fails for a refreshMe that ran with a token, be it
\* the token effect's or a caller's, token, user and storage are cleared.
C4_FailureClears ==
    [][ ev'.op \in {"meFail", "callerMeFail"}
          => (token' = Null /\ user' = NullUser /\ storage' = Null) ]_vars

\* C5 as stated: a successful login mirrors the response in token and
\* user, and no /auth/me fetch is performed as a consequence of the login.
C5_NoFetchAfterLogin ==
    /\ [][ ev'.op \in LoginOkOps
             => (token' = ev'.res.accessToken /\ user'.id = ev'.res.id) ]_vars
    /\ [](\A r \in BagToSet(meInFlight) : r.cause # "login")

\* the fields login copies from the response
Mirrors(u, res) ==
    /\ u.id = res.id
    /\ u.name = res.name
    /\ u.email = res.email
    /\ u.role = res.role
    /\ u.referralCode = res.referralCode

\* C5 amended: a successful login ends with token equal to the response's
\* accessToken and user mirroring the same response, and issues no request
\* itself; when the token value changed, the token effect scheduled by
\* that commit then issues one /auth/me fetch carrying the new token.
C5_LoginMirrorsResponse ==
    /\ [][ ev'.op \in LoginOkOps
             => /\ token' = ev'.res.accessToken
                /\ Mirrors(user', ev'.res)
                /\ nav' = "/"
                /\ meInFlight' = meInFlight
                /\ IF token' = token
                   THEN tokenEffects' = tokenEffects
                   ELSE tokenEffects' =
                          Append(tokenEffects,
                                 [tok |-> token', cause |-> "login"]) ]_vars
    /\ [][ (ev'.op = "effect" /\ Head(tokenEffects).cause = "login")
             => meInFlight' =
                  meInFlight (+)
                  SetToBag({[tok |-> Head(tokenEffects).tok, auto |-> TRUE,
                             cause |-> "login"]}) ]_vars

C5_Witness ==
    /\ ev.op = "loginOk"
    /\ token = ev.res.accessToken
    /\ Mirrors(user, ev.res)
    /\ tokenEffects = <<[tok |-> token, cause |-> "login"]>>

\* C6: a failed /auth/login or /auth/register request leaves token, user,
\* storage and navigation as they were and hands the error to the caller;
\* the login/register operations change the token only in a successful
\* login, together with the user of the same response.
C6_FailureLeavesSession ==
    [][ /\ ev'.op \in LoginFailOps \cup {"registerFail"}
          => /\ UNCHANGED <<token, user, storage, nav, tokenEffects>>
             /\ ev'.msg \in Messages
             /\ (ev'.op # "loginFail" => err' = ev'.msg)
        /\ ev'.op \in {"login", "register", "registerOk"}
          => UNCHANGED <<token, user, storage, nav, tokenEffects>>
        /\ ev'.op \in LoginOkOps
          => (token' = ev'.res.accessToken /\ user' # NullUser
              /\ user'.id = ev'.res.id) ]_vars

C6_Witness ==
    /\ ev.op \in LoginFailOps
    /\ ev.msg \in Messages
    /\ token # Null
    /\ user # NullUser
    /\ storage = token

\* C7: mounting with a persisted token adopts it with a null user (no user
\* from storage alone) and is followed by an /auth/me fetch for it; when
\* the token effect's fetch rejects, token and user are null and the
\* storage key is deleted.
C7_PersistedTokenResolves ==
    /\ [][ ev'.op = "mount"
             => /\ token' = storage
                /\ user' = NullUser
                /\ storage' = storage
                /\ tokenEffects' =
                     IF storage = Null THEN <<>>
                     ELSE <<[tok |-> storage, cause |-> "storage"]>> ]_vars
    /\ [][ ev'.op = "meFail"
             => (token' = Null /\ user' = NullUser /\ storage' = Null) ]_vars
    /\ \A t \in Tokens :
         (ev.op = "mount" /\ storage = t)
           ~> BagIn([tok |-> t, auto |-> TRUE, cause |-> "storage"],
                    meInFlight)

C7_Witness ==
    /\ ev.op = "meFail"
    /\ nLogin = 0 /\ nRegister = 0 /\ nRefresh = 0
    /\ nav = Null
    /\ token = Null /\ user = NullUser /\ storage = Null

\* C8: logout leaves token null, user null, the storage key deleted and
\* navigates to /login; called when already logged out it changes nothing
\* but the navigation, and a second logout changes nothing at all.
LoggedOut == token = Null /\ user = NullUser /\ storage = Null

C8_LogoutIdempotent ==
    [][ ev'.op = "logout"
          => /\ LoggedOut'
             /\ nav' = "/login"
             /\ LoggedOut
                  => UNCHANGED <<token, user, loading, storage, mounted,
                                 tokenEffects, meInFlight, loginInFlight,
                                 registerInFlight, err>>
             /\ ev.op = "logout"
                  => UNCHANGED <<token, user, loading, storage, mounted,
                                 tokenEffects, meInFlight, loginInFlight,
                                 registerInFlight, err, nav>> ]_vars

C8_Witness ==
    /\ ev.op = "logout"
    /\ LoggedOut
    /\ nav = "/login"
    /\ nLogin = 1
    /\ \E i \in 1..Len(tokenEffects) : tokenEffects[i].cause = "logout"

\* C9: register issues /auth/login only when /auth/register has succeeded,
\* with the email and password of its payload; when /auth/register fails
\* no login request is issued and the error reaches the caller unchanged.
C9_RegisterThenLogin ==
    [][ /\ \A p \in Payloads :
             CopiesIn(p, registerInFlight') < CopiesIn(p, registerInFlight)
               => \/ /\ ev'.op = "registerOk"
                     /\ loginInFlight' =
                          loginInFlight (+)
                          SetToBag({[email |-> p.email,
                                     password |-> p.password, reg |-> TRUE]})
                  \/ /\ ev'.op = "registerFail"
                     /\ loginInFlight' = loginInFlight
                     /\ err' = ev'.msg
        /\ \A r \in BagToSet(loginInFlight') :
             (r.reg /\ CopiesIn(r, loginInFlight') > CopiesIn(r, loginInFlight))
               => (ev'.op = "registerOk"
                   /\ BagIn([email |-> r.email, password |-> r.password],
                            registerInFlight)) ]_vars

C9_Witness ==
    /\ ev.op = "registerOk"
    /\ ev.password = "p2"
    /\ BagIn([email |-> ev.email, password |-> ev.password, reg |-> TRUE],
             loginInFlight)

Bearer == "Bearer "

\* opts.token: absent or empty (falsy), bare, already prefixed
ApiTokens == { <<>>, <<"x">>, <<Bearer, "x">> }

\* opts.body: absent, a FormData, an object, the number 0
FormBody == Body("FormData", "form1")
ObjBody == Body("object", "obj1")
ZeroBody == Body("number", "zero")
ApiBodies == {NoBody, FormBody, ObjBody, ZeroBody}

\* opts.headers["Content-Type"] of the caller
CallerContentTypes == {Undefined, "text/plain"}

ApiOptsSet ==
    [token : ApiTokens, body : ApiBodies, contentType : CallerContentTypes]

\* JSON.stringify of a body
JSONstringify(body) ==
    Body("string",
         CASE body.id = "obj1" -> "{\"a\":1}"
           [] body.id = "zero" -> "0"
           [] OTHER -> "{}")

\* response bodies: empty, not JSON, a JSON object with a message, a JSON
\* object without one, a JSON number
MessageJson == "{\"message\":\"bad\"}"
ErrorJson == "{\"error\":\"x\"}"
BodyTexts == {"", "oops", MessageJson, ErrorJson, "7"}

Statuses == {200, 404}
ContentTypes == {"application/json; charset=utf-8", "text/html"}
Responses == [status : Statuses, contentType : ContentTypes, text : BodyTexts]

\* res.ok
Ok(res) == res.status >= 200 /\ res.status <= 299

\* JSON.parse: the value, or a SyntaxError
JSONparse(text) ==
    CASE text = MessageJson ->
           [ok |-> TRUE, val |-> JsValue("object", "bad", text)]
      [] text = ErrorJson ->
           [ok |-> TRUE, val |-> JsValue("object", Undefined, text)]
      [] text = "7" ->
           [ok |-> TRUE, val |-> JsValue("number", Undefined, text)]
      [] OTHER -> [ok |-> FALSE, val |-> JsUndefined]

\* a string value
JsString(text) == JsValue("string", Undefined, text)

\* truthiness of a message / a string
Truthy(str) == str \notin {Undefined, Null, ""}

\* `Request failed (${res.status})`
RequestFailed(status) == "Request failed (" \o ToString(status) \o ")"

\* contentType.includes("application/json")
IncludesJson(contentType) ==
    contentType \in {"application/json", "application/json; charset=utf-8"}

Return(val) == [kind |-> "return", val |-> val, msg |-> ""]
Throw(msg) == [kind |-> "throw", val |-> JsUndefined, msg |-> msg]

\* ---- src/lib/api.ts
\* the Authorization value: one leading "Bearer " of the token is dropped
LibAuthorization(tok) ==
    IF tok = <<>> THEN <<>>
    ELSE <<Bearer>> \o (IF Head(tok) = Bearer THEN Tail(tok) ELSE tok)

LibRequest(opts) ==
    [authorization |-> LibAuthorization(opts.token),
     contentType |->
        IF opts.body.kind = "FormData" THEN opts.contentType
        ELSE IF opts.body.kind # "undefined" THEN "application/json"
        ELSE opts.contentType,
     body |->
        IF opts.body.kind = "FormData" THEN opts.body
        ELSE IF opts.body.kind # "undefined" THEN JSONstringify(opts.body)
        ELSE NoBody]

\* text is parsed whatever the content type; text that does not parse
\* becomes { message: text }
LibJson(text) ==
    IF text = "" THEN JsNull
    ELSE IF JSONparse(text).ok THEN JSONparse(text).val
    ELSE JsValue("object", text, "wrapped")

LibResult(res) ==
    LET json == LibJson(res.text) IN
      IF ~Ok(res)
      THEN Throw(IF Truthy(json.message) THEN json.message
                 ELSE RequestFailed(res.status))
      ELSE Return(json)

\* ---- src/unnamed/part_012
Part012Authorization(tok) ==
    IF tok = <<>> THEN <<>> ELSE <<Bearer>> \o tok

\* opts.body ? ... : undefined
BodyTruthy(body) == body.kind \in {"FormData", "object"}

Part012Request(opts) ==
    [authorization |-> Part012Authorization(opts.token),
     contentType |->
        IF opts.body.kind = "FormData" THEN opts.contentType
        ELSE IF opts.contentType # Undefined THEN opts.contentType
        ELSE "application/json",
     body |->
        IF BodyTruthy(opts.body)
        THEN IF opts.body.kind = "FormData" THEN opts.body
             ELSE JSONstringify(opts.body)
        ELSE NoBody]

\* res.json().catch(() => null) or res.text()
Part012Data(res) ==
    IF IncludesJson(res.contentType)
    THEN IF JSONparse(res.text).ok THEN JSONparse(res.text).val ELSE JsNull
    ELSE JsString(res.text)

Part012Result(res) ==
    LET isJson == IncludesJson(res.contentType)
        data == Part012Data(res) IN
      IF ~Ok(res)
      THEN Throw(IF isJson /\ Truthy(data.message) THEN data.message
                 ELSE IF data.type = "string" /\ Truthy(data.src) THEN data.src
                 ELSE RequestFailed(res.status))
      ELSE Return(data)

ApiVersions == {"lib", "part012"}

\* api is called: the request is built and handed to fetch
ApiCall(ver, opts) ==
    /\ apiPc = "idle"
    /\ apiPc' = "sent"
    /\ apiVer' = ver
    /\ apiOpts' = opts
    /\ apiReq' = IF ver = "lib" THEN LibRequest(opts) ELSE Part012Request(opts)
    /\ UNCHANGED <<apiRes, apiOut>>

\* fetch resolves with res: api returns or throws
ApiSettle(res) ==
    /\ apiPc = "sent"
    /\ apiPc' = "done"
    /\ apiRes' = res
    /\ apiOut' = IF apiVer = "lib" THEN LibResult(res) ELSE Part012Result(res)
    /\ UNCHANGED <<apiVer, apiOpts, apiReq>>

ApiInit == AuthIdle /\ PagesIdle

ApiNext ==
    \/ \E ver \in ApiVersions, opts \in ApiOptsSet :
         ApiCall(ver, opts) /\ UNCHANGED exceptApi
    \/ \E res \in Responses : ApiSettle(res) /\ UNCHANGED exceptApi

ApiSpec == ApiInit /\ [][ApiNext]_vars

\* a message that contains the status code
ContainsStatus(msg, status) ==
    \E pre \in {"", "Request failed (", "Request failed with status code "},
       post \in {"", ")"} : msg = pre \o ToString(status) \o post

\* C11: for a non-2xx response api throws one error whose message is the
\* message field of the JSON body if there is one, else the raw body text
\* if the body is not empty (a JSON body without message included), else a
\* generic message containing the status code.
C11_ErrorMessageChain ==
    (apiPc = "done" /\ ~Ok(apiRes))
      => /\ apiOut.kind = "throw"
         /\ LET p == JSONparse(apiRes.text) IN
              IF p.ok /\ p.val.type = "object" /\ p.val.message # Undefined
              THEN apiOut.msg = p.val.message
              ELSE IF apiRes.text # ""
              THEN apiOut.msg = apiRes.text
              ELSE ContainsStatus(apiOut.msg, apiRes.status)

\* C12: for a 2xx response api returns the parsed body when the content
\* type indicates JSON and the raw body text otherwise (stated for the
\* bodies that parse, resp. that are not empty).
C12_SuccessPayload ==
    (apiPc = "done" /\ Ok(apiRes))
      => /\ apiOut.kind = "return"
         /\ IF IncludesJson(apiRes.contentType)
            THEN JSONparse(apiRes.text).ok
                   => apiOut.val = JSONparse(apiRes.text).val
            ELSE apiRes.text # ""
                   => (apiOut.val.type = "string"
                       /\ apiOut.val.src = apiRes.text)

\* the token without any leading "Bearer "
RECURSIVE BareToken(_)
BareToken(tok) ==
    IF tok # <<>> /\ Head(tok) = Bearer THEN BareToken(Tail(tok)) ELSE tok

\* C13: a non-empty token gives the Authorization header "Bearer " followed
\* by the bare token, the prefix occurring once; no token, no header.
C13_BearerOnce ==
    apiPc # "idle"
      => IF apiOpts.token = <<>>
         THEN apiReq.authorization = <<>>
         ELSE /\ apiReq.authorization = <<Bearer>> \o BareToken(apiOpts.token)
              /\ Cardinality({i \in 1..Len(apiReq.authorization) :
                                apiReq.authorization[i] = Bearer}) = 1

\* C14: a FormData body is sent as the object it is and api adds no JSON
\* content type; any other supplied body is sent as its JSON text with the
\* JSON content type (stated for callers that pass no content type).
C14_BodyEncoding ==
    apiPc # "idle"
      => IF apiOpts.body.kind = "FormData"
         THEN /\ apiReq.body = apiOpts.body
              /\ apiReq.contentType = apiOpts.contentType
         ELSE apiOpts.body.kind # "undefined"
                => /\ apiReq.body.kind = "string"
                   /\ apiReq.body = JSONstringify(apiOpts.body)
                   /\ (apiOpts.contentType = Undefined
                         => apiReq.contentType = "application/json")

\* ======================================================================
\* The upload helper uploadToCloudinary (src/unnamed/part_011, 1119-1153).
\* ======================================================================
Files == {"f1", "f2"}
Folders == {"events", "proofs"}                 \* folder hint / ticket folder
Signatures ==
    [timestamp : {1700, 1800}, signature : {"s1", "s2"},
     cloudName : {"cloud"}, apiKey : {"k1"}, folder : Folders]
UploadArgs == [file : Files, token : Tokens, folder : Folders]
MediaResults == [secure_url : {"https://u1"}, public_id : {"id1", "id2"}]
UploadErrors == {Undefined, "bad signature"}    \* json?.error?.message

\* the POST /uploads/signature request
SignRequest(args) ==
    [to |-> "/uploads/signature", token |-> args.token, folder |-> args.folder,
     file |-> "", api_key |-> "", timestamp |-> "", signature |-> ""]

\* UploadRequest that sends the caller's folder hint.
UploadRequestMut(args, sig) ==
    [to |-> "cloudinary/" \o sig.cloudName, token |-> "",
     folder |-> args.folder, file |-> args.file, api_key |-> sig.apiKey,
     timestamp |-> ToString(sig.timestamp), signature |-> sig.signature]

\* the multipart POST to the media host: the form built from the ticket
UploadRequest(args, sig) ==
    [to |-> "cloudinary/" \o sig.cloudName, token |-> "",
     folder |-> sig.folder, file |-> args.file, api_key |-> sig.apiKey,
     timestamp |-> ToString(sig.timestamp), signature |-> sig.signature]

\* uploadToCloudinary(file, token, folder) is called: the ticket is asked for
UploadCall(args) ==
    /\ uploadPc = "idle"
    /\ uploadPc' = "signing"
    /\ uploadArgs' = args
    /\ uploadLog' = Append(uploadLog, SignRequest(args))
    /\ UNCHANGED <<uploadSig, uploadOut>>

\* the signing call answered: the form is built and posted
SignOk(sig) ==
    /\ uploadPc = "signing"
    /\ uploadPc' = "uploading"
    /\ uploadSig' = sig
    /\ uploadLog' = Append(uploadLog, UploadRequest(uploadArgs, sig))
    /\ UNCHANGED <<uploadArgs, uploadOut>>

\* the signing call rejected: api throws, the helper rejects with it
SignFail(msg) ==
    /\ uploadPc = "signing"
    /\ uploadPc' = "failed"
    /\ uploadOut' = [NoUpload EXCEPT !.kind = "throw", !.msg = msg]
    /\ UNCHANGED <<uploadArgs, uploadSig, uploadLog>>

\* the media host answered 2xx
MediaOk(json) ==
    /\ uploadPc = "uploading"
    /\ uploadPc' = "done"
    /\ uploadOut' = [kind |-> "return", secureUrl |-> json.secure_url,
                     publicId |-> json.public_id, msg |-> ""]
    /\ UNCHANGED <<uploadArgs, uploadSig, uploadLog>>

\* the media host answered non-2xx with json.error.message = m (or none)
MediaFail(m) ==
    /\ uploadPc = "uploading"
    /\ uploadPc' = "failed"
    /\ uploadOut' =
         [NoUpload EXCEPT !.kind = "throw",
            !.msg = IF Truthy(m) THEN m ELSE "Cloudinary upload failed"]
    /\ UNCHANGED <<uploadArgs, uploadSig, uploadLog>>

UploadInit == AuthIdle /\ PagesIdle

UploadNext ==
    \/ \E args \in UploadArgs : UploadCall(args) /\ UNCHANGED exceptUpload
    \/ \E sig \in Signatures : SignOk(sig) /\ UNCHANGED exceptUpload
    \/ \E msg \in Messages : SignFail(msg) /\ UNCHANGED exceptUpload
    \/ \E json \in MediaResults : MediaOk(json) /\ UNCHANGED exceptUpload
    \/ \E m \in UploadErrors : MediaFail(m) /\ UNCHANGED exceptUpload

UploadSpec == UploadInit /\ [][UploadNext]_vars

\* C15: the ticket is requested first, with the caller's token; one POST to
\* the media host follows only when the ticket arrived, carrying the api
\* key, timestamp, signature and folder of the ticket; a rejected signing
\* call means no media request; a rejected call makes the helper fail with
\* an error; no call is repeated.
C15_SignThenUpload ==
    /\ Len(uploadLog) <= 2
    /\ uploadPc # "idle"
         => /\ Len(uploadLog) >= 1
            /\ uploadLog[1].to = "/uploads/signature"
            /\ uploadLog[1].token = uploadArgs.token
    /\ Len(uploadLog) = 2
         => /\ uploadSig # NoSig
            /\ uploadLog[2].to # "/uploads/signature"
            /\ uploadLog[2].api_key = uploadSig.apiKey
            /\ uploadLog[2].timestamp = ToString(uploadSig.timestamp)
            /\ uploadLog[2].signature = uploadSig.signature
            /\ uploadLog[2].folder = uploadSig.folder
            /\ uploadLog[2].file = uploadArgs.file
    /\ uploadSig = NoSig => Len(uploadLog) <= 1
    /\ uploadPc \in {"uploading", "done"} => Len(uploadLog) = 2
    /\ uploadPc = "failed"
         => (uploadOut.kind = "throw" /\ uploadOut.msg # "")
    /\ uploadPc = "done" => uploadOut.kind = "return"

C15_Witness ==
    /\ uploadPc = "done"
    /\ uploadSig.folder # uploadArgs.folder
    /\ Len(uploadLog) = 2
    /\ uploadLog[2].folder = uploadSig.folder

\* =========== organizer dashboard: refreshAll, accept, reject, ConfirmDialog
\* (src/src/app/organizer/page.tsx; ConfirmDialog in src/unnamed/part_011)
TrxLists == {{}, {1}}               \* items of GET /organizer/transactions
EventLists == {{}, {10}}            \* items of GET /organizer/events
StatsResults == {"s1"}              \* answers of GET /organizer/stats
OrgTabs == {"transactions", "stats"}
DialogOps == {"accept", "reject"}

\* an async function that is awaiting: which one, its number, what it awaits
\* ("all": Promise.all of the two loaders, "stats": loadStats, "patch": the
\* mutating call, "load": loadTransactions), the mainTab its closure holds
\* and the transaction it is about
OrgCall(fn, n, stage, tab, id) ==
    [fn |-> fn, n |-> n, stage |-> stage, tab |-> tab, id |-> id]

\* an api call in flight: the function (and its number) that issued it,
\* the loader or mutation it belongs to, the transaction it is about
OrgFetch(fn, n, loader, id) == [fn |-> fn, n |-> n, loader |-> loader, id |-> id]

OrgEvent(op, fn, n, loader, msg) ==
    [op |-> op, fn |-> fn, n |-> n, loader |-> loader, msg |-> msg]

\* the function instance that issued fetch f and still awaits, if any
Awaiting(f) == {c \in orgCalls : c.fn = f.fn /\ c.n = f.n}

\* the other fetches of the same function instance that are in flight
Siblings(f) == {g \in orgFetches : g.fn = f.fn /\ g.n = f.n /\ g # f}

\* a row's ConfirmDialog exists only while its transaction is listed
Shown(items, dialog) == IF dialog.id \in items THEN dialog ELSE NoDialog

\* close() of the dialog instance of call c: ref.current?.close()
Close(c, dialog) ==
    IF dialog = [op |-> c.fn, id |-> c.id] THEN NoDialog ELSE dialog

\* the context delivers an organizer session with a token; the access
\* effect (deps [loading, user, authToken, eventSort]) loads the base data:
\* Promise.all([loadTransactions(), loadEvents()]).catch(setErr)
OrgUseAuth(tok) ==
    /\ orgAuthToken = Null
    /\ orgAuthToken' = tok
    /\ orgCalls' = orgCalls \cup {OrgCall("effect", 0, "all", "none", 0)}
    /\ orgFetches' = orgFetches \cup
         { OrgFetch("effect", 0, "transactions", 0),
           OrgFetch("effect", 0, "events", 0) }
    /\ orgEv' = OrgEvent("useAuth", "effect", 0, "none", "")
    /\ UNCHANGED <<orgMainTab, orgTrxItems, orgEvents, orgErr, orgBusy,
                   orgStats, orgStatsErr, orgStatsLoading, orgDialog,
                   orgUnhandled, nOrgCalls>>

\* a main tab is clicked; the stats effect (deps [mainTab, statsGroupBy,
\* authToken]) calls loadStats when the stats tab opens
OrgSetMainTab(tab) ==
    /\ orgDialog = NoDialog
    /\ orgMainTab # tab
    /\ nOrgCalls < MaxOrgCalls
    /\ nOrgCalls' = nOrgCalls + 1
    /\ orgMainTab' = tab
    /\ IF tab = "stats" /\ orgAuthToken # Null
         THEN /\ orgStatsLoading' = TRUE
              /\ orgStatsErr' = Null
              /\ orgFetches' = orgFetches \cup
                   {OrgFetch("tab", nOrgCalls + 1, "stats", 0)}
         ELSE UNCHANGED <<orgStatsLoading, orgStatsErr, orgFetches>>
    /\ orgEv' = OrgEvent("setMainTab", "tab", nOrgCalls + 1, "none", "")
    /\ UNCHANGED <<orgAuthToken, orgTrxItems, orgEvents, orgErr, orgBusy,
                   orgStats, orgDialog, orgCalls, orgUnhandled>>

\* Refresh is clicked (disabled={busy || !authToken}): refreshAll sets busy,
\* clears err and starts both loaders before it awaits
OrgRefreshAll ==
    /\ orgDialog = NoDialog
    /\ ~orgBusy
    /\ orgAuthToken # Null
    /\ nOrgCalls < MaxOrgCalls
    /\ nOrgCalls' = nOrgCalls + 1
    /\ orgBusy' = TRUE
    /\ orgErr' = Null
    /\ orgCalls' = orgCalls \cup
         {OrgCall("refreshAll", nOrgCalls + 1, "all", orgMainTab, 0)}
    /\ orgFetches' = orgFetches \cup
         { OrgFetch("refreshAll", nOrgCalls + 1, "transactions", 0),
           OrgFetch("refreshAll", nOrgCalls + 1, "events", 0) }
    /\ orgEv' = OrgEvent("refreshAll", "refreshAll", nOrgCalls + 1,
                         "none", "")
    /\ UNCHANGED <<orgAuthToken, orgMainTab, orgTrxItems, orgEvents,
                   orgStats, orgStatsErr, orgStatsLoading, orgDialog,
                   orgUnhandled>>

\* a loader's api call answered: the loader stores the items; when it was
\* the last one Promise.all awaited, the awaiting function goes on
OrgItemsOk(f, items) ==
    /\ f \in orgFetches
    /\ f.loader \in {"transactions", "events"}
    /\ items \in (IF f.loader = "transactions" THEN TrxLists ELSE EventLists)
    /\ orgTrxItems' = IF f.loader = "transactions" THEN items ELSE orgTrxItems
    /\ orgEvents' = IF f.loader = "events" THEN items ELSE orgEvents
    /\ orgEv' = OrgEvent("itemsOk", f.fn, f.n, f.loader, "")
    /\ \/ /\ \/ Awaiting(f) = {}
             \/ \E c \in Awaiting(f) : c.stage = "all" /\ Siblings(f) # {}
          /\ orgFetches' = orgFetches \ {f}
          /\ orgDialog' = Shown(orgTrxItems', orgDialog)
          /\ UNCHANGED <<orgBusy, orgStatsLoading, orgStatsErr, orgCalls>>
       \/ \E c \in Awaiting(f) :
            /\ c.stage = "all"
            /\ Siblings(f) = {}
            /\ orgDialog' = Shown(orgTrxItems', orgDialog)
            /\ IF c.fn = "refreshAll" /\ c.tab = "stats"
                 THEN /\ orgStatsLoading' = TRUE
                      /\ orgStatsErr' = Null
                      /\ orgCalls' = (orgCalls \ {c}) \cup
                           {[c EXCEPT !.stage = "stats"]}
                      /\ orgFetches' = (orgFetches \ {f}) \cup
                           {OrgFetch(c.fn, c.n, "stats", 0)}
                      /\ UNCHANGED orgBusy
                 ELSE /\ orgBusy' = IF c.fn = "refreshAll" THEN FALSE
                                    ELSE orgBusy
                      /\ orgCalls' = orgCalls \ {c}
                      /\ orgFetches' = orgFetches \ {f}
                      /\ UNCHANGED <<orgStatsLoading, orgStatsErr>>
       \/ \E c \in Awaiting(f) :
            /\ c.stage = "load"
            /\ orgDialog' = Close(c, Shown(orgTrxItems', orgDialog))
            /\ orgCalls' = orgCalls \ {c}
            /\ orgFetches' = orgFetches \ {f}
            /\ UNCHANGED <<orgBusy, orgStatsLoading, orgStatsErr>>
    /\ UNCHANGED <<orgAuthToken, orgMainTab, orgErr, orgStats, orgUnhandled,
                   nOrgCalls>>

\* a loader's api call failed: the loader rejects; Promise.all rejects at
\* once without waiting for the other loader; refreshAll's catch sets err
\* and its finally clears busy; the effect's catch sets err; accept and
\* reject have no catch, nor has the dialog's click handler
OrgItemsFail(f, msg) ==
    /\ f \in orgFetches
    /\ f.loader \in {"transactions", "events"}
    /\ orgFetches' = orgFetches \ {f}
    /\ orgEv' = OrgEvent("itemsFail", f.fn, f.n, f.loader, msg)
    /\ \/ /\ Awaiting(f) = {}
          /\ UNCHANGED <<orgErr, orgBusy, orgCalls, orgUnhandled>>
       \/ \E c \in Awaiting(f) :
            /\ c.stage = "all"
            /\ orgErr' = msg
            /\ orgBusy' = IF c.fn = "refreshAll" THEN FALSE ELSE orgBusy
            /\ orgCalls' = orgCalls \ {c}
            /\ UNCHANGED orgUnhandled
       \/ \E c \in Awaiting(f) :
            /\ c.stage = "load"
            /\ orgUnhandled' = orgUnhandled \cup {msg}
            /\ orgCalls' = orgCalls \ {c}
            /\ UNCHANGED <<orgErr, orgBusy>>
    /\ UNCHANGED <<orgAuthToken, orgMainTab, orgTrxItems, orgEvents,
                   orgStats, orgStatsErr, orgStatsLoading, orgDialog,
                   nOrgCalls>>

\* what follows loadStats, whoever called it: refreshAll's finally
\* clears busy
OrgAfterStats(f) ==
    IF \E c \in Awaiting(f) : c.stage = "stats"
      THEN /\ orgBusy' = FALSE
           /\ orgCalls' = orgCalls \ Awaiting(f)
      ELSE UNCHANGED <<orgBusy, orgCalls>>

\* loadStats' api call answered
OrgStatsOk(f, res) ==
    /\ f \in orgFetches
    /\ f.loader = "stats"
    /\ orgFetches' = orgFetches \ {f}
    /\ orgStats' = res
    /\ orgStatsLoading' = FALSE
    /\ OrgAfterStats(f)
    /\ orgEv' = OrgEvent("statsOk", f.fn, f.n, f.loader, "")
    /\ UNCHANGED <<orgAuthToken, orgMainTab, orgTrxItems, orgEvents, orgErr,
                   orgStatsErr, orgDialog, orgUnhandled, nOrgCalls>>

\* loadStats' api call failed: its own catch sets statsErr and drops stats
OrgStatsFail(f, msg) ==
    /\ f \in orgFetches
    /\ f.loader = "stats"
    /\ orgFetches' = orgFetches \ {f}
    /\ orgStatsErr' = msg
    /\ orgStats' = Null
    /\ orgStatsLoading' = FALSE
    /\ OrgAfterStats(f)
    /\ orgEv' = OrgEvent("statsFail", f.fn, f.n, f.loader, msg)
    /\ UNCHANGED <<orgAuthToken, orgMainTab, orgTrxItems, orgEvents, orgErr,
                   orgDialog, orgUnhandled, nOrgCalls>>

\* a row's Accept or Reject button: the trigger opens its dialog (modal)
OrgOpenDialog(op, id) ==
    /\ orgDialog = NoDialog
    /\ orgMainTab = "transactions"
    /\ id \in orgTrxItems
    /\ orgDialog' = [op |-> op, id |-> id]
    /\ orgEv' = OrgEvent("open", op, 0, "none", "")
    /\ UNCHANGED <<orgAuthToken, orgMainTab, orgTrxItems, orgEvents, orgErr,
                   orgBusy, orgStats, orgStatsErr, orgStatsLoading,
                   orgCalls, orgFetches, orgUnhandled, nOrgCalls>>

\* the dialog's cancel button
OrgCancel ==
    /\ orgDialog # NoDialog
    /\ orgDialog' = NoDialog
    /\ orgEv' = OrgEvent("cancel", orgDialog.op, 0, "none", "")
    /\ UNCHANGED <<orgAuthToken, orgMainTab, orgTrxItems, orgEvents, orgErr,
                   orgBusy, orgStats, orgStatsErr, orgStatsLoading,
                   orgCalls, orgFetches, orgUnhandled, nOrgCalls>>

\* the dialog's confirm button: await onConfirm(), that is accept(id) or
\* reject(id), which issues PATCH /transactions/{id}/accept|reject
OrgConfirm ==
    /\ orgDialog # NoDialog
    /\ orgAuthToken # Null
    /\ nOrgCalls < MaxOrgCalls
    /\ nOrgCalls' = nOrgCalls + 1
    /\ orgCalls' = orgCalls \cup
         {OrgCall(orgDialog.op, nOrgCalls + 1, "patch", "none",
                  orgDialog.id)}
    /\ orgFetches' = orgFetches \cup
         {OrgFetch(orgDialog.op, nOrgCalls + 1, orgDialog.op,
                   orgDialog.id)}
    /\ orgEv' = OrgEvent("confirm", orgDialog.op, nOrgCalls + 1,
                         "none", "")
    /\ UNCHANGED <<orgAuthToken, orgMainTab, orgTrxItems, orgEvents, orgErr,
                   orgBusy, orgStats, orgStatsErr, orgStatsLoading,
                   orgDialog, orgUnhandled>>

\* the mutating call succeeded: accept/reject goes on to loadTransactions
OrgPatchOk(f) ==
    /\ f \in orgFetches
    /\ f.loader \in DialogOps
    /\ orgFetches' = (orgFetches \ {f}) \cup
         {OrgFetch(f.fn, f.n, "transactions", 0)}
    /\ orgCalls' = {IF c.fn = f.fn /\ c.n = f.n
                      THEN [c EXCEPT !.stage = "load"] ELSE c : c \in orgCalls}
    /\ orgEv' = OrgEvent("patchOk", f.fn, f.n, f.loader, "")
    /\ UNCHANGED <<orgAuthToken, orgMainTab, orgTrxItems, orgEvents, orgErr,
                   orgBusy, orgStats, orgStatsErr, orgStatsLoading,
                   orgDialog, orgUnhandled, nOrgCalls>>

\* the mutating call failed: api throws, accept/reject rejects, the click
\* handler's await throws before close(); nothing catches the rejection
OrgPatchFail(f, msg) ==
    /\ f \in orgFetches
    /\ f.loader \in DialogOps
    /\ orgFetches' = orgFetches \ {f}
    /\ orgCalls' = orgCalls \ Awaiting(f)
    /\ orgUnhandled' = orgUnhandled \cup {msg}
    /\ orgEv' = OrgEvent("patchFail", f.fn, f.n, f.loader, msg)
    /\ UNCHANGED <<orgAuthToken, orgMainTab, orgTrxItems, orgEvents, orgErr,
                   orgBusy, orgStats, orgStatsErr, orgStatsLoading,
                   orgDialog, nOrgCalls>>

OrgInit == AuthIdle /\ PagesIdle

OrgNext ==
    \/ \E tok \in Tokens : OrgUseAuth(tok) /\ UNCHANGED exceptOrg
    \/ \E tab \in OrgTabs : OrgSetMainTab(tab) /\ UNCHANGED exceptOrg
    \/ OrgRefreshAll /\ UNCHANGED exceptOrg
    \/ \E f \in orgFetches : \E items \in TrxLists \cup EventLists :
         OrgItemsOk(f, items) /\ UNCHANGED exceptOrg
    \/ \E f \in orgFetches : \E msg \in Messages :
         OrgItemsFail(f, msg) /\ UNCHANGED exceptOrg
    \/ \E f \in orgFetches : \E res \in StatsResults :
         OrgStatsOk(f, res) /\ UNCHANGED exceptOrg
    \/ \E f \in orgFetches : \E msg \in Messages :
         OrgStatsFail(f, msg) /\ UNCHANGED exceptOrg
    \/ \E op \in DialogOps : \E id \in UNION TrxLists :
         OrgOpenDialog(op, id) /\ UNCHANGED exceptOrg
    \/ OrgCancel /\ UNCHANGED exceptOrg
    \/ OrgConfirm /\ UNCHANGED exceptOrg
    \/ \E f \in orgFetches : OrgPatchOk(f) /\ UNCHANGED exceptOrg
    \/ \E f \in orgFetches : \E msg \in Messages :
         OrgPatchFail(f, msg) /\ UNCHANGED exceptOrg

OrgSpec == OrgInit /\ [][OrgNext]_vars

\* the fetches in flight, after the step, of the function the step was about
OfLastCall == {g \in orgFetches' : g.fn = orgEv'.fn /\ g.n = orgEv'.n}

\* C16: refreshAll starts its two loaders together; the busy flag goes from
\* set to clear only when none of the fetches of that refreshAll is still
\* in flight; when a loader fails while refreshAll awaits, the failure's
\* message becomes the one error text and the stored lists stay as they are.
C16_RefreshAllSettles ==
    [][ /\ orgEv'.op = "refreshAll"
             => /\ OrgFetch("refreshAll", orgEv'.n, "transactions", 0)
                     \in orgFetches'
                /\ OrgFetch("refreshAll", orgEv'.n, "events", 0)
                     \in orgFetches'
        /\ (orgBusy /\ ~orgBusy') => OfLastCall = {}
        /\ ( /\ orgEv'.op = "itemsFail"
             /\ orgEv'.fn = "refreshAll"
             /\ \E c \in orgCalls : c.fn = orgEv'.fn /\ c.n = orgEv'.n )
             => /\ orgErr' = orgEv'.msg
                /\ UNCHANGED <<orgTrxItems, orgEvents>>
      ]_vars

\* C17: accept and reject issue the mutating call first and re-fetch the
\* transaction list only when it succeeded; when it fails, its message is
\* shown as the page's error text and no re-fetch is issued.
C17_MutationThenRefetch ==
    [][ /\ orgEv'.op = "confirm"
             => orgFetches' \ orgFetches =
                  {OrgFetch(orgEv'.fn, orgEv'.n, orgEv'.fn, orgDialog.id)}
        /\ (\E g \in orgFetches' \ orgFetches :
              g.fn \in DialogOps /\ g.loader = "transactions")
             => orgEv'.op = "patchOk"
        /\ orgEv'.op = "patchOk"
             => OrgFetch(orgEv'.fn, orgEv'.n, "transactions", 0)
                  \in orgFetches'
        /\ orgEv'.op = "patchFail"
             => /\ orgErr' = orgEv'.msg
                /\ orgFetches' \subseteq orgFetches
      ]_vars

\* ================= event detail / checkout: canCheckout, checkout, render
\* (src/src/app/events/[id]/page.tsx)
Roles == {"CUSTOMER", "ORGANIZER"}
EventDetails ==
    {[loaded |-> TRUE, id |-> 7, remainingSeats |-> s] : s \in 0..MaxSeats}
Qtys == (0 - 1)..(MaxSeats + 2)      \* Number(e.target.value)
SeatMessage == "Qty tidak valid / seat tidak cukup"

CkEvent(op, qty, msg) == [op |-> op, qty |-> qty, msg |-> msg]

CanCheckoutMut(data, qty) ==
    IF ~data.loaded THEN FALSE
    ELSE IF data.remainingSeats <= 0 THEN FALSE
    ELSE IF qty < 1 THEN FALSE
    ELSE TRUE

\* canCheckout, the memo over [data, qty]
CanCheckout(data, qty) ==
    IF ~data.loaded THEN FALSE
    ELSE IF data.remainingSeats <= 0 THEN FALSE
    ELSE IF qty < 1 THEN FALSE
    ELSE IF qty > data.remainingSeats THEN FALSE
    ELSE TRUE

\* what the page renders: the early returns for loading, err and no data
CkView ==
    IF ckLoading THEN "loading"
    ELSE IF ckErr # Null THEN "error"
    ELSE IF ~ckData.loaded THEN "notfound"
    ELSE "form"

\* disabled={!user || user.role !== "CUSTOMER" || !canCheckout}
SubmitDisabled ==
    ckUser = Null \/ ckUser # "CUSTOMER" \/ ~CanCheckout(ckData, ckQty)

\* the texts the page shows besides the event itself
CkMessages ==
    IF CkView = "error" THEN {ckErr}
    ELSE IF CkView = "form" /\ ckUser = "ORGANIZER"
      THEN {"Organizer tidak bisa checkout. Login sebagai CUSTOMER."}
    ELSE {}

\* the auth context delivers another token / user
CkUseAuth(tok, role) ==
    /\ <<tok, role>> # <<ckToken, ckUser>>
    /\ ckToken' = tok
    /\ ckUser' = role
    /\ ckEv' = CkEvent("useAuth", 0, "")
    /\ UNCHANGED <<ckData, ckReviews, ckErr, ckLoading, ckQty, ckPosts,
                   ckNav, nCkPosts>>

\* the load effect's Promise.all of GET /events/{id} and its reviews
\* resolved: then() stores both, finally() clears loading
CkLoadOk(event, rev) ==
    /\ ckLoading
    /\ ckData' = event
    /\ ckReviews' = rev
    /\ ckLoading' = FALSE
    /\ ckEv' = CkEvent("loadOk", 0, "")
    /\ UNCHANGED <<ckToken, ckUser, ckErr, ckQty, ckPosts, ckNav, nCkPosts>>

\* one of the two rejected: catch() sets err, finally() clears loading
CkLoadFail(msg) ==
    /\ ckLoading
    /\ ckErr' = msg
    /\ ckLoading' = FALSE
    /\ ckEv' = CkEvent("loadFail", 0, msg)
    /\ UNCHANGED <<ckToken, ckUser, ckData, ckReviews, ckQty, ckPosts,
                   ckNav, nCkPosts>>

\* the qty input changes: setQty(Number(e.target.value))
CkSetQty(q) ==
    /\ CkView = "form"
    /\ q # ckQty
    /\ ckQty' = q
    /\ ckEv' = CkEvent("setQty", q, "")
    /\ UNCHANGED <<ckToken, ckUser, ckData, ckReviews, ckErr, ckLoading,
                   ckPosts, ckNav, nCkPosts>>

\* Create Transaction is clicked: checkout()
CkCheckout ==
    /\ CkView = "form"
    /\ ~SubmitDisabled
    /\ nCkPosts < MaxCheckouts
    /\ IF ckToken = Null
         THEN /\ ckNav' = "/login"
              /\ ckErr' = Null
              /\ UNCHANGED <<ckPosts, nCkPosts>>
       ELSE IF ~ckData.loaded
         THEN /\ ckErr' = Null
              /\ UNCHANGED <<ckPosts, ckNav, nCkPosts>>
       ELSE IF ~CanCheckout(ckData, ckQty)
         THEN /\ ckErr' = SeatMessage
              /\ UNCHANGED <<ckPosts, ckNav, nCkPosts>>
       ELSE /\ ckErr' = Null
            /\ nCkPosts' = nCkPosts + 1
            /\ ckPosts' = ckPosts \cup
                 {[n |-> nCkPosts + 1, token |-> ckToken,
                   eventId |-> ckData.id, qty |-> ckQty]}
            /\ UNCHANGED ckNav
    /\ ckEv' = CkEvent("checkout", ckQty, "")
    /\ UNCHANGED <<ckToken, ckUser, ckData, ckReviews, ckLoading, ckQty>>

\* POST /transactions answered: router.push("/transactions")
CkPostOk(p) ==
    /\ p \in ckPosts
    /\ ckPosts' = ckPosts \ {p}
    /\ ckNav' = "/transactions"
    /\ ckEv' = CkEvent("postOk", p.qty, "")
    /\ UNCHANGED <<ckToken, ckUser, ckData, ckReviews, ckErr, ckLoading,
                   ckQty, nCkPosts>>

\* POST /transactions failed: catch sets err
CkPostFail(p, msg) ==
    /\ p \in ckPosts
    /\ ckPosts' = ckPosts \ {p}
    /\ ckErr' = msg
    /\ ckEv' = CkEvent("postFail", p.qty, msg)
    /\ UNCHANGED <<ckToken, ckUser, ckData, ckReviews, ckLoading, ckQty,
                   ckNav, nCkPosts>>

CkInit == AuthIdle /\ PagesIdle

CkNext ==
    \/ \E tok \in {Null, "tA"} : \E role \in Roles \cup {Null} :
         CkUseAuth(tok, role) /\ UNCHANGED exceptCk
    \/ \E event \in EventDetails : \E rev \in {"r1"} :
         CkLoadOk(event, rev) /\ UNCHANGED exceptCk
    \/ \E msg \in Messages : CkLoadFail(msg) /\ UNCHANGED exceptCk
    \/ \E q \in Qtys : CkSetQty(q) /\ UNCHANGED exceptCk
    \/ CkCheckout /\ UNCHANGED exceptCk
    \/ \E p \in ckPosts : CkPostOk(p) /\ UNCHANGED exceptCk
    \/ \E p \in ckPosts : \E msg \in Messages :
         CkPostFail(p, msg) /\ UNCHANGED exceptCk

CkSpec == CkInit /\ [][CkNext]_vars

\* C18: a POST /transactions is issued only from a state with a token, a
\* loaded event with remainingSeats > 0 and 1 <= qty <= remainingSeats, and
\* it carries that qty; while qty exceeds the displayed remaining seats the
\* submit control is disabled and no step issues a request.
C18_CheckoutGuard ==
    [][ /\ \A p \in ckPosts' \ ckPosts :
             /\ ckToken # Null
             /\ ckData.loaded
             /\ ckData.remainingSeats > 0
             /\ 1 <= ckQty /\ ckQty <= ckData.remainingSeats
             /\ p.qty = ckQty /\ p.token = ckToken
        /\ (CkView = "form" /\ ckQty > ckData.remainingSeats)
             => /\ SubmitDisabled
                /\ ckPosts' \subseteq ckPosts
      ]_vars

\* a request was issued, and the qty entered now exceeds the seats shown
C18_Witness ==
    /\ CkView = "form"
    /\ ckPosts # {}
    /\ ckQty > ckData.remainingSeats
    /\ SubmitDisabled
    /\ ckUser = "CUSTOMER"

\* C19: whenever the form shows a qty above the displayed remaining seats
\* (the state in which the submit control is disabled), the page shows the
\* message about insufficient seats.
C19_SeatMessageShown ==
    (CkView = "form" /\ ckQty > ckData.remainingSeats)
      => (SubmitDisabled /\ SeatMessage \in CkMessages)

\* ======================================== reset password: submit
\* (src/src/app/reset-password/[token]/page.tsx)
RpPasswords == {"", "p", "q"}       \* what can be typed into either input
RpErrors == Messages \cup {""}      \* e.message of a rejected api call
TokenMessage == "Invalid or missing token."
RequiredMessage == "Password is required."
MismatchMessage == "Password confirmation does not match."
UpdatedMessage == "Password updated. You can login now."

SubmitErrorMut(tok, password, confirm) ==
    IF tok = Null THEN TokenMessage
    ELSE IF password = "" THEN RequiredMessage
    ELSE Null

\* the checks of submit before the request, in order: the message set by
\* the first one that fails, Null when all pass
SubmitError(tok, password, confirm) ==
    IF tok = Null THEN TokenMessage
    ELSE IF password = "" THEN RequiredMessage
    ELSE IF password # confirm THEN MismatchMessage
    ELSE Null

\* the page is opened from a reset link: the route carries the token
RpRoute(tok) ==
    /\ rpToken = Null
    /\ rpToken' = tok
    /\ rpEv' = "route"
    /\ UNCHANGED <<rpPassword, rpConfirm, rpErr, rpOk, rpLoading, rpReq>>

\* the password input changes
RpSetPassword(p) ==
    /\ p # rpPassword
    /\ rpPassword' = p
    /\ rpEv' = "setPassword"
    /\ UNCHANGED <<rpToken, rpConfirm, rpErr, rpOk, rpLoading, rpReq>>

\* the confirm input changes
RpSetConfirm(c) ==
    /\ c # rpConfirm
    /\ rpConfirm' = c
    /\ rpEv' = "setConfirm"
    /\ UNCHANGED <<rpToken, rpPassword, rpErr, rpOk, rpLoading, rpReq>>

\* Reset Password is clicked (disabled={loading}): submit()
RpSubmit ==
    /\ ~rpLoading
    /\ rpOk' = Null
    /\ rpErr' = SubmitError(rpToken, rpPassword, rpConfirm)
    /\ IF SubmitError(rpToken, rpPassword, rpConfirm) = Null
         THEN /\ rpLoading' = TRUE
              /\ rpReq' = [sent |-> TRUE, token |-> rpToken,
                           password |-> rpPassword]
         ELSE UNCHANGED <<rpLoading, rpReq>>
    /\ rpEv' = "submit"
    /\ UNCHANGED <<rpToken, rpPassword, rpConfirm>>

\* the request answered: ok is set and both inputs are emptied
RpSubmitOk ==
    /\ rpReq.sent
    /\ rpReq' = NoRpReq
    /\ rpOk' = UpdatedMessage
    /\ rpPassword' = ""
    /\ rpConfirm' = ""
    /\ rpLoading' = FALSE
    /\ rpEv' = "submitOk"
    /\ UNCHANGED <<rpToken, rpErr>>

\* the request failed: e.message || "Failed to reset password."
RpSubmitFail(msg) ==
    /\ rpReq.sent
    /\ rpReq' = NoRpReq
    /\ rpErr' = IF Truthy(msg) THEN msg ELSE "Failed to reset password."
    /\ rpLoading' = FALSE
    /\ rpEv' = "submitFail"
    /\ UNCHANGED <<rpToken, rpPassword, rpConfirm, rpOk>>

RpInit == AuthIdle /\ PagesIdle

RpNext ==
    \/ \E tok \in {"rt1", "rt2"} : RpRoute(tok) /\ UNCHANGED exceptRp
    \/ \E p \in RpPasswords : RpSetPassword(p) /\ UNCHANGED exceptRp
    \/ \E c \in RpPasswords : RpSetConfirm(c) /\ UNCHANGED exceptRp
    \/ RpSubmit /\ UNCHANGED exceptRp
    \/ RpSubmitOk /\ UNCHANGED exceptRp
    \/ \E msg \in RpErrors : RpSubmitFail(msg) /\ UNCHANGED exceptRp

RpSpec == RpInit /\ [][RpNext]_vars

\* C20 as stated, for a page opened with a token: every submit with
\* password and confirm that differ is blocked with the mismatch message,
\* and no request is sent.
C20_MismatchMessage ==
    [][ (rpEv' = "submit" /\ rpToken # Null /\ rpPassword # rpConfirm)
          => /\ rpErr' = MismatchMessage
             /\ UNCHANGED rpReq
      ]_vars

\* C20 amended: every submit with password and confirm that differ is
\* blocked: no request is sent, loading stays clear and an error text is
\* set; the text is the mismatch message when the route has a token and
\* the password is not empty, else the message of the earlier check.
C20_MismatchBlocked ==
    [][ (rpEv' = "submit" /\ rpPassword # rpConfirm)
          => /\ UNCHANGED rpReq
             /\ ~rpReq'.sent
             /\ ~rpLoading'
             /\ rpOk' = Null
             /\ rpErr' \in {TokenMessage, RequiredMessage, MismatchMessage}
             /\ (rpToken # Null /\ rpPassword # "")
                  => rpErr' = MismatchMessage
             /\ rpToken = Null => rpErr' = TokenMessage
             /\ (rpToken # Null /\ rpPassword = "")
                  => rpErr' = RequiredMessage
      ]_vars

\* a submit with differing values was just blocked with the mismatch text
C20_Witness ==
    /\ rpEv = "submit"
    /\ rpPassword # rpConfirm
    /\ rpPassword # ""
    /\ rpErr = MismatchMessage
    /\ ~rpReq.sent

\* ============ voucher management: createVoucher, saveEdit, deleteVoucher
\* (src/src/app/organizer/events/[id]/vouchers/page.tsx)
Codes == {<<>>, <<" ">>, <<" ", "A">>}          \* what is typed as code
Discounts == {0, 1}                              \* Number(e.target.value)
DateInputs == {0 - 1, 0, 1, 2}                   \* datetime-local values
MaxUsesInputs == {" ", "0", "3", "x"}            \* what is typed as max-uses
\* a form that passes every check, and the forms typed: those that differ
\* from it in at most one field
GoodForm == VoucherForm(<<" ", "A">>, 1, 1, 2, "3")
VoucherForms ==
    {[GoodForm EXCEPT !.code = c] : c \in Codes}
      \cup {[GoodForm EXCEPT !.discountAmount = d] : d \in Discounts}
      \cup {[GoodForm EXCEPT !.startAt = t] : t \in DateInputs}
      \cup {[GoodForm EXCEPT !.endAt = t] : t \in DateInputs \ {0 - 1}}
      \cup {[GoodForm EXCEPT !.maxUses = m] : m \in MaxUsesInputs}

\* a voucher of the backend; maxUses 0 stands for null
Voucher(id, maxUses) ==
    [id |-> id, code |-> <<"A">>, discountAmount |-> 5, startAt |-> 1,
     endAt |-> 2, maxUses |-> maxUses]
VoucherLists == {{}, {Voucher(1, 0), Voucher(2, 3)}}

\* an awaiting function: its number, what it is (effect, create, update,
\* delete), what it awaits (the mutating call or load) and the voucher
\* it is about
VcCall(n, kind, stage, id) == [n |-> n, kind |-> kind, stage |-> stage, id |-> id]

RECURSIVE TrimStart(_)
\* String.prototype.trim, one end at a time
TrimStart(s) ==
    IF s # <<>> /\ Head(s) = " " THEN TrimStart(Tail(s)) ELSE s

RECURSIVE TrimEnd(_)
TrimEnd(s) ==
    IF s # <<>> /\ s[Len(s)] = " "
      THEN TrimEnd(SubSeq(s, 1, Len(s) - 1)) ELSE s

Trim(s) == TrimEnd(TrimStart(s))

\* maxUses.trim() of the texts that can be typed
TrimText(t) == IF t = " " THEN "" ELSE t

\* Number(text) of the texts that can be typed: NaN or a number
NumberOf(t) ==
    IF t = "0" THEN [nan |-> FALSE, val |-> 0]
    ELSE IF t = "3" THEN [nan |-> FALSE, val |-> 3]
    ELSE IF TrimText(t) = "" THEN [nan |-> FALSE, val |-> 0]
    ELSE [nan |-> TRUE, val |-> 0]

\* mu: null (0 here) when the trimmed text is empty, else Number(maxUses)
MaxUsesOf(t) ==
    IF TrimText(t) = "" THEN [null |-> TRUE, nan |-> FALSE, val |-> 0]
    ELSE [null |-> FALSE, nan |-> NumberOf(t).nan, val |-> NumberOf(t).val]

VoucherErrorMut(form) ==
    IF Trim(form.code) = <<>> THEN "Code wajib diisi"
    ELSE IF form.startAt = 0 THEN "startAt wajib diisi"
    ELSE IF form.endAt = 0 THEN "endAt wajib diisi"
    ELSE IF form.startAt < 0 \/ form.endAt < 0 THEN "Tanggal tidak valid"
    ELSE IF form.discountAmount < 1 THEN "discountAmount minimal 1"
    ELSE IF /\ ~MaxUsesOf(form.maxUses).null
            /\ (MaxUsesOf(form.maxUses).nan \/ MaxUsesOf(form.maxUses).val < 1)
      THEN "maxUses harus >= 1 atau kosong"
    ELSE Null

\* the checks of createVoucher and of saveEdit before the prompt, in order:
\* the message of the first that fails, Null when all pass
VoucherError(form) ==
    IF Trim(form.code) = <<>> THEN "Code wajib diisi"
    ELSE IF form.startAt = 0 THEN "startAt wajib diisi"
    ELSE IF form.endAt = 0 THEN "endAt wajib diisi"
    ELSE IF form.startAt < 0 \/ form.endAt < 0 THEN "Tanggal tidak valid"
    ELSE IF form.endAt <= form.startAt THEN "endAt harus setelah startAt"
    ELSE IF form.discountAmount < 1 THEN "discountAmount minimal 1"
    ELSE IF /\ ~MaxUsesOf(form.maxUses).null
            /\ (MaxUsesOf(form.maxUses).nan \/ MaxUsesOf(form.maxUses).val < 1)
      THEN "maxUses harus >= 1 atau kosong"
    ELSE Null

\* the mutations (not the first load) that are awaiting
VcMutations == {c \in vcCalls : c.kind # "effect"}

\* the context delivers an organizer session; the effect calls load()
VcUseAuth(tok) ==
    /\ vcToken = Null
    /\ vcToken' = tok
    /\ vcErr' = Null
    /\ vcCalls' = vcCalls \cup {VcCall(0, "effect", "load", 0)}
    /\ vcPrompt' = "none"
    /\ UNCHANGED <<vcItems, vcBusy, vcForm, vcEditing, vcEditForm, nVcCalls>>

\* the create form is filled in: the onChange handlers of its fields, one
\* after another (the edit overlay covers the page while it is open)
VcFill(form) ==
    /\ vcEditing = 0
    /\ vcForm # form
    /\ vcForm' = form
    /\ vcPrompt' = "none"
    /\ UNCHANGED <<vcToken, vcItems, vcErr, vcBusy, vcEditing, vcEditForm,
                   vcCalls, nVcCalls>>

\* the edit form is changed: the onChange handlers of its fields
VcFillEdit(form) ==
    /\ vcEditing # 0
    /\ vcEditForm # form
    /\ vcEditForm' = form
    /\ vcPrompt' = "none"
    /\ UNCHANGED <<vcToken, vcItems, vcErr, vcBusy, vcEditing, vcForm,
                   vcCalls, nVcCalls>>

\* a row's Edit button: openEdit(v)
VcOpenEdit(v) ==
    /\ vcEditing = 0
    /\ v \in vcItems
    /\ vcEditing' = v.id
    /\ vcEditForm' =
         VoucherForm(v.code, v.discountAmount, v.startAt, v.endAt,
                     IF v.maxUses = 0 THEN "" ELSE ToString(v.maxUses))
    /\ vcPrompt' = "none"
    /\ UNCHANGED <<vcToken, vcItems, vcErr, vcBusy, vcForm, vcCalls,
                   nVcCalls>>

\* the overlay's close button: setEditing(null)
VcCloseEdit ==
    /\ vcEditing # 0
    /\ vcEditing' = 0
    /\ vcPrompt' = "none"
    /\ UNCHANGED <<vcToken, vcItems, vcErr, vcBusy, vcForm, vcEditForm,
                   vcCalls, nVcCalls>>

\* what a click on Create / Save does with the form: the checks, then
\* window.confirm (answered ok or not), then setBusy and the request
VcSubmit(kind, form, id, ok) ==
    /\ vcToken # Null
    /\ nVcCalls < MaxVoucherCalls
    /\ IF VoucherError(form) # Null
         THEN /\ vcErr' = VoucherError(form)
              /\ vcPrompt' = "none"
              /\ UNCHANGED <<vcBusy, vcCalls, nVcCalls>>
       ELSE IF ~ok
         THEN /\ vcErr' = Null
              /\ vcPrompt' = "declined"
              /\ UNCHANGED <<vcBusy, vcCalls, nVcCalls>>
       ELSE /\ vcErr' = Null
            /\ vcBusy' = TRUE
            /\ nVcCalls' = nVcCalls + 1
            /\ vcCalls' = vcCalls \cup
                 {VcCall(nVcCalls + 1, kind, "mutate", id)}
            /\ vcPrompt' = "accepted"
    /\ UNCHANGED <<vcToken, vcItems, vcForm, vcEditing, vcEditForm>>

\* Create Voucher is clicked (disabled={busy}): createVoucher()
VcCreate(ok) ==
    /\ vcEditing = 0
    /\ ~vcBusy
    /\ VcSubmit("create", vcForm, 0, ok)

\* Save Changes is clicked (disabled={busy}): saveEdit()
VcSaveEdit(ok) ==
    /\ vcEditing # 0
    /\ ~vcBusy
    /\ VcSubmit("update", vcEditForm, vcEditing, ok)

\* a row's Delete button (never disabled): deleteVoucher(id)
VcDelete(v, ok) ==
    /\ vcEditing = 0
    /\ v \in vcItems
    /\ vcToken # Null
    /\ nVcCalls < MaxVoucherCalls
    /\ vcErr' = Null
    /\ IF ~ok
         THEN /\ vcPrompt' = "declined"
              /\ UNCHANGED <<vcBusy, vcCalls, nVcCalls>>
         ELSE /\ vcBusy' = TRUE
              /\ nVcCalls' = nVcCalls + 1
              /\ vcCalls' = vcCalls \cup
                   {VcCall(nVcCalls + 1, "delete", "mutate", v.id)}
              /\ vcPrompt' = "accepted"
    /\ UNCHANGED <<vcToken, vcItems, vcForm, vcEditing, vcEditForm>>

\* the mutating call answered: create empties code and maxUses, update
\* closes the overlay; then load() clears err and fetches the list
VcMutateOk(c) ==
    /\ c \in vcCalls
    /\ c.stage = "mutate"
    /\ vcForm' = IF c.kind = "create"
                   THEN [vcForm EXCEPT !.code = <<>>, !.maxUses = ""]
                   ELSE vcForm
    /\ vcEditing' = IF c.kind = "update" THEN 0 ELSE vcEditing
    /\ vcErr' = Null
    /\ vcCalls' = (vcCalls \ {c}) \cup {[c EXCEPT !.stage = "load"]}
    /\ vcPrompt' = "none"
    /\ UNCHANGED <<vcToken, vcItems, vcBusy, vcEditForm, nVcCalls>>

\* setBusy(false) of the finally of a mutation; the effect has none
BusyAfter(c) == IF c.kind = "effect" THEN vcBusy ELSE FALSE

\* the mutating call or the reload failed: catch sets err, finally
\* clears busy
VcFail(c, msg) ==
    /\ c \in vcCalls
    /\ vcCalls' = vcCalls \ {c}
    /\ vcErr' = msg
    /\ vcBusy' = BusyAfter(c)
    /\ vcPrompt' = "none"
    /\ UNCHANGED <<vcToken, vcItems, vcForm, vcEditing, vcEditForm,
                   nVcCalls>>

\* load() answered: setItems(res.items ?? []), finally clears busy
VcLoadOk(c, items) ==
    /\ c \in vcCalls
    /\ c.stage = "load"
    /\ vcCalls' = vcCalls \ {c}
    /\ vcItems' = items
    /\ vcBusy' = BusyAfter(c)
    /\ vcPrompt' = "none"
    /\ UNCHANGED <<vcToken, vcErr, vcForm, vcEditing, vcEditForm, nVcCalls>>

VcInit == AuthIdle /\ PagesIdle

VcNext ==
    \/ \E tok \in {"tA"} : VcUseAuth(tok) /\ UNCHANGED exceptVc
    \/ \E form \in VoucherForms : VcFill(form) /\ UNCHANGED exceptVc
    \/ \E form \in VoucherForms : VcFillEdit(form) /\ UNCHANGED exceptVc
    \/ \E v \in vcItems : VcOpenEdit(v) /\ UNCHANGED exceptVc
    \/ VcCloseEdit /\ UNCHANGED exceptVc
    \/ \E ok \in BOOLEAN : VcCreate(ok) /\ UNCHANGED exceptVc
    \/ \E ok \in BOOLEAN : VcSaveEdit(ok) /\ UNCHANGED exceptVc
    \/ \E v \in vcItems : \E ok \in BOOLEAN :
         VcDelete(v, ok) /\ UNCHANGED exceptVc
    \/ \E c \in vcCalls : VcMutateOk(c) /\ UNCHANGED exceptVc
    \/ \E c \in vcCalls : \E msg \in {"m1"} :
         VcFail(c, msg) /\ UNCHANGED exceptVc
    \/ \E c \in vcCalls : \E items \in VoucherLists :
         VcLoadOk(c, items) /\ UNCHANGED exceptVc

VcSpec == VcInit /\ [][VcNext]_vars

\* what C21 asks of a form: trimmed code non-empty, endAt strictly after
\* startAt, positive discount, max-uses empty or a positive number
FormAcceptable(form) ==
    /\ Trim(form.code) # <<>>
    /\ form.startAt > 0
    /\ form.endAt > form.startAt
    /\ form.discountAmount > 0
    /\ \/ TrimText(form.maxUses) = ""
       \/ (~NumberOf(form.maxUses).nan /\ NumberOf(form.maxUses).val > 0)

\* C21: a create or update request is sent only from a form with a
\* non-empty trimmed code, endAt after startAt, a positive discount and
\* max-uses empty or positive; every create, update or delete request is
\* sent in a step in which the prompt was accepted; a step with a declined
\* prompt sends nothing.
C21_VoucherRequestGuard ==
    [][ /\ \A c \in vcCalls' \ vcCalls :
             c.stage = "mutate"
               => /\ vcPrompt' = "accepted"
                  /\ c.kind = "create" => FormAcceptable(vcForm)
                  /\ c.kind = "update" => FormAcceptable(vcEditForm)
                  /\ c.kind \in {"create", "update", "delete"}
        /\ vcPrompt' = "declined" => vcCalls' = vcCalls
        /\ vcPrompt' = "none" => VcMutations' \subseteq
              (VcMutations \cup {[c EXCEPT !.stage = "load"] : c \in VcMutations})
      ]_vars

\* the prompt of an update was just accepted and its request is in
\* flight, the second request of the page
C21_Witness ==
    /\ vcPrompt = "accepted"
    /\ \E c \in vcCalls : c.kind = "update" /\ c.stage = "mutate"
    /\ nVcCalls = 2
    /\ FormAcceptable(vcEditForm)

\* C29: busy is set whenever a create, update or delete (or its reload)
\* is in flight, at most one of them is in flight at a time, and busy is
\* clear when none is.
C29_BusyCoversMutations ==
    /\ VcMutations # {} => vcBusy
    /\ Cardinality(VcMutations) <= 1
    /\ VcMutations = {} => ~vcBusy

\* ===== organizer dashboard: sortByEventName, grouped, visibleTrx
\* (src/src/app/organizer/page.tsx)
Statuses4 ==
    {"WAITING_FOR_ADMIN_CONFIRMATION", "DONE", "REJECTED", "EXPIRED"}
EventNames == {"a", " A", "b"}
TrxTabs == {"pending", "accepted", "rejected", "other"}

\* the permutations of 1..n, as sequences
Perms(n) == {p \in [1..n -> 1..n] : \A i, j \in 1..n : p[i] = p[j] => i = j}

\* the responses of GET /organizer/transactions: up to MaxTrxItems
\* transactions with distinct ids, in any order
TrxResponses ==
    UNION { { [i \in 1..n |->
                [id |-> p[i], status |-> st[i], name |-> nm[i]]] :
              p \in Perms(n), st \in [1..n -> Statuses4],
              nm \in [1..n -> EventNames] } : n \in 0..MaxTrxItems }

\* name.trim() of the names used here
TrimName(name) == IF name = " A" THEN "A" ELSE name

\* the base letters of a name: what sensitivity "base" compares
Fold(name) ==
    IF name = "A" THEN "a" ELSE IF name = " A" THEN " a" ELSE name

\* the place of a folded name in the collation order (space sorts first)
Rank(name) == IF name = " a" THEN 0 ELSE IF name = "a" THEN 1 ELSE 2

\* x.localeCompare(y, "id", {sensitivity: "base"}): negative, 0, positive
LocaleCompare(x, y) == Rank(Fold(x)) - Rank(Fold(y))

\* the comparators handed to Array.prototype.sort, by name
Compare(how, a, b) ==
    IF how = "eventName"
      THEN IF LocaleCompare(TrimName(a.name), TrimName(b.name)) # 0
             THEN LocaleCompare(TrimName(a.name), TrimName(b.name))
             ELSE a.id - b.id
    ELSE IF how = "NAME_ASC" THEN LocaleCompare(a.name, b.name)
    ELSE IF how = "NAME_DESC" THEN LocaleCompare(b.name, a.name)
    ELSE IF how = "DATE_ASC" THEN a.startAt - b.startAt
    ELSE b.startAt - a.startAt

RECURSIVE InsertSorted(_, _, _)
\* x put into the sorted s behind every element that does not sort after it
InsertSorted(how, x, s) ==
    IF s = <<>> THEN <<x>>
    ELSE IF Compare(how, s[Len(s)], x) <= 0 THEN Append(s, x)
    ELSE Append(InsertSorted(how, x, SubSeq(s, 1, Len(s) - 1)), s[Len(s)])

RECURSIVE StableSort(_, _)
\* [...items].sort(comparator): Array.prototype.sort is stable
StableSort(how, s) ==
    IF s = <<>> THEN <<>>
    ELSE InsertSorted(how, s[Len(s)], StableSort(how, SubSeq(s, 1, Len(s) - 1)))

SortByEventName(items) == StableSort("eventName", items)

RECURSIVE Filter(_, _)
\* items.filter(t => t.status in keep)
Filter(items, keep) ==
    IF items = <<>> THEN <<>>
    ELSE IF Head(items).status \in keep
      THEN <<Head(items)>> \o Filter(Tail(items), keep)
    ELSE Filter(Tail(items), keep)

OtherStatusesMut == Statuses4 \ {"WAITING_FOR_ADMIN_CONFIRMATION", "DONE"}

\* the statuses that are none of the three named ones
OtherStatuses ==
    Statuses4 \ {"WAITING_FOR_ADMIN_CONFIRMATION", "DONE", "REJECTED"}

\* grouped, the memo over [trxItems]
Grouped(items) ==
    [pending |->
       SortByEventName(Filter(items, {"WAITING_FOR_ADMIN_CONFIRMATION"})),
     accepted |-> SortByEventName(Filter(items, {"DONE"})),
     rejected |-> SortByEventName(Filter(items, {"REJECTED"})),
     other |-> SortByEventName(Filter(items, OtherStatuses)),
     counts |->
       [pending |-> Len(Filter(items, {"WAITING_FOR_ADMIN_CONFIRMATION"})),
        accepted |-> Len(Filter(items, {"DONE"})),
        rejected |-> Len(Filter(items, {"REJECTED"})),
        other |-> Len(Filter(items, OtherStatuses))]]

\* visibleTrx, the memo over [trxTab, grouped]
VisibleTrx ==
    IF trTab = "pending" THEN Grouped(trItems).pending
    ELSE IF trTab = "accepted" THEN Grouped(trItems).accepted
    ELSE IF trTab = "rejected" THEN Grouped(trItems).rejected
    ELSE Grouped(trItems).other

\* loadTransactions resolved: setTrxItems(res.items)
TrLoad(items) ==
    /\ trItems = <<>>
    /\ trItems' = items
    /\ UNCHANGED trTab

\* a status tab is clicked: setTrxTab(tab)
TrSetTab(tab) ==
    /\ trTab # tab
    /\ trTab' = tab
    /\ UNCHANGED trItems

TrInit == AuthIdle /\ PagesIdle

TrNext ==
    \/ \E items \in TrxResponses : TrLoad(items) /\ UNCHANGED exceptTr
    \/ \E tab \in TrxTabs : TrSetTab(tab) /\ UNCHANGED exceptTr

TrSpec == TrInit /\ [][TrNext]_vars

\* the ids of the transactions of a list
Ids(s) == {s[i].id : i \in 1..Len(s)}

\* C22: the four groups partition the fetched transactions by status
\* (pending: WAITING_FOR_ADMIN_CONFIRMATION, accepted: DONE, rejected:
\* REJECTED, other: anything else), each count badge is the size of its
\* group, the counts add up to the number fetched, and the tab shows its
\* own group.
C22_GroupsPartition ==
    LET g == Grouped(trItems)
        groups == <<g.pending, g.accepted, g.rejected, g.other>>
    IN /\ \A i \in 1..Len(trItems) :
            /\ Cardinality({k \in 1..4 : trItems[i].id \in Ids(groups[k])}) = 1
            /\ trItems[i].id \in Ids(g.pending)
                 <=> trItems[i].status = "WAITING_FOR_ADMIN_CONFIRMATION"
            /\ trItems[i].id \in Ids(g.accepted)
                 <=> trItems[i].status = "DONE"
            /\ trItems[i].id \in Ids(g.rejected)
                 <=> trItems[i].status = "REJECTED"
       /\ \A k \in 1..4 :
            /\ Ids(groups[k]) \subseteq Ids(trItems)
            /\ Cardinality(Ids(groups[k])) = Len(groups[k])
       /\ g.counts.pending = Len(g.pending)
       /\ g.counts.accepted = Len(g.accepted)
       /\ g.counts.rejected = Len(g.rejected)
       /\ g.counts.other = Len(g.other)
       /\ g.counts.pending + g.counts.accepted + g.counts.rejected
            + g.counts.other = Len(trItems)
       /\ VisibleTrx = groups[CHOOSE k \in 1..4 :
                         trTab = <<"pending", "accepted", "rejected",
                                   "other">>[k]]

\* a response with one pending transaction and others of another status
C22_Witness ==
    /\ Len(trItems) = MaxTrxItems
    /\ Grouped(trItems).counts.pending = 1
    /\ Grouped(trItems).counts.other >= 1
    /\ trTab = "other"

\* ===== organizer dashboard: sortEvents, visibleEvents
\* (src/src/app/organizer/page.tsx)
EventSorts == {"NAME_ASC", "NAME_DESC", "DATE_ASC", "DATE_DESC"}
EventFilters == {"upcoming", "past"}
StartTimes == {2, 3}                 \* new Date(startAt).getTime()

\* the responses of GET /organizer/events: up to MaxEventItems events with
\* distinct ids, in any order; an event ends one unit after it starts
EventResponses ==
    UNION { { [i \in 1..n |->
                [id |-> p[i], name |-> nm[i], startAt |-> st[i],
                 endAt |-> st[i] + 1]] :
              p \in Perms(n), nm \in [1..n -> EventNames],
              st \in [1..n -> StartTimes] } : n \in 0..MaxEventItems }

\* sortEvents(items, sort)
SortEvents(items, sort) == StableSort(sort, items)

RECURSIVE FilterEnd(_, _, _)
\* sorted.filter(event => endAt < now) for past, endAt >= now for upcoming
FilterEnd(items, past, now) ==
    IF items = <<>> THEN <<>>
    ELSE IF (past /\ Head(items).endAt < now)
            \/ (~past /\ Head(items).endAt >= now)
      THEN <<Head(items)>> \o FilterEnd(Tail(items), past, now)
    ELSE FilterEnd(Tail(items), past, now)

VisibleEventsMut(events, sort, filter, now) ==
    FilterEnd(SortEvents(events, sort), filter = "past", now + 1)

\* the body of the visibleEvents memo, with now = Date.now()
VisibleEvents(events, sort, filter, now) ==
    FilterEnd(SortEvents(events, sort), filter = "past", now)

\* loadEvents resolved: setEvents(res.items); the memo is recomputed
OeLoad(events) ==
    /\ oeEvents = <<>>
    /\ oeEvents' = events
    /\ oeMemoAt' = oeNow
    /\ oeVisible' = VisibleEvents(events, oeSort, oeFilter, oeNow)
    /\ UNCHANGED <<oeSort, oeFilter, oeNow>>

\* the sort select changes: setEventSort(sort); the memo is recomputed
OeSetSort(sort) ==
    /\ oeSort # sort
    /\ oeSort' = sort
    /\ oeMemoAt' = oeNow
    /\ oeVisible' = VisibleEvents(oeEvents, sort, oeFilter, oeNow)
    /\ UNCHANGED <<oeEvents, oeFilter, oeNow>>

\* Upcoming or Past is clicked: setEventFilter(filter); the memo is
\* recomputed
OeSetFilter(filter) ==
    /\ oeFilter # filter
    /\ oeFilter' = filter
    /\ oeMemoAt' = oeNow
    /\ oeVisible' = VisibleEvents(oeEvents, oeSort, filter, oeNow)
    /\ UNCHANGED <<oeEvents, oeSort, oeNow>>

\* time passes; no dependency of the memo changes
OeTick ==
    /\ oeNow < MaxClock
    /\ oeNow' = oeNow + 1
    /\ UNCHANGED <<oeEvents, oeSort, oeFilter, oeMemoAt, oeVisible>>

OeInit == AuthIdle /\ PagesIdle

OeNext ==
    \/ \E events \in EventResponses : OeLoad(events) /\ UNCHANGED exceptOe
    \/ \E sort \in EventSorts : OeSetSort(sort) /\ UNCHANGED exceptOe
    \/ \E filter \in EventFilters : OeSetFilter(filter) /\ UNCHANGED exceptOe
    \/ OeTick /\ UNCHANGED exceptOe

OeSpec == OeInit /\ [][OeNext]_vars

\* the place of the item with this id in a list
IndexOf(s, id) == CHOOSE i \in 1..Len(s) : s[i].id = id

\* s keeps the relative order of t for the items it has
KeepsOrder(s, t) ==
    \A i, j \in 1..Len(s) :
      i < j => IndexOf(t, s[i].id) < IndexOf(t, s[j].id)

\* C23: in sortEvents with NAME_ASC and in sortByEventName, items whose
\* names compare equal come out by ascending id; in the date sorts, events
\* with the same start time come out in the order of the input.
C23_SortTies ==
    LET byName == SortEvents(oeEvents, "NAME_ASC")
        byEvent == SortByEventName(oeEvents)
    IN /\ \A i, j \in 1..Len(byName) :
            (i < j /\ LocaleCompare(byName[i].name, byName[j].name) = 0)
              => byName[i].id < byName[j].id
       /\ \A i, j \in 1..Len(byEvent) :
            ( /\ i < j
              /\ LocaleCompare(TrimName(byEvent[i].name),
                               TrimName(byEvent[j].name)) = 0 )
              => byEvent[i].id < byEvent[j].id
       /\ \A sort \in {"DATE_ASC", "DATE_DESC"} :
            LET byDate == SortEvents(oeEvents, sort)
            IN \A i, j \in 1..Len(byDate) :
                 (i < j /\ byDate[i].startAt = byDate[j].startAt)
                   => IndexOf(oeEvents, byDate[i].id)
                        < IndexOf(oeEvents, byDate[j].id)

\* C26 as stated: the list shown holds an event exactly when, under past,
\* its endAt is before the current time and, under upcoming, its endAt is
\* at or after the current time; it keeps the order of the selected sort.
C26_FilterByClock ==
    /\ \A i \in 1..Len(oeEvents) :
         oeEvents[i].id \in Ids(oeVisible)
           <=> IF oeFilter = "past" THEN oeEvents[i].endAt < oeNow
               ELSE oeEvents[i].endAt >= oeNow
    /\ KeepsOrder(oeVisible, SortEvents(oeEvents, oeSort))

\* C26 amended: the comparison is with the clock as it was when the list
\* was last computed (a change of events, sort or filter); for that instant
\* every event is under exactly one of the two filters, and the list keeps
\* the order of the selected sort.
C26_FilterAtMemoTime ==
    /\ oeMemoAt <= oeNow
    /\ \A i \in 1..Len(oeEvents) :
         /\ oeEvents[i].id \in Ids(oeVisible)
              <=> IF oeFilter = "past" THEN oeEvents[i].endAt < oeMemoAt
                  ELSE oeEvents[i].endAt >= oeMemoAt
         /\ oeEvents[i].id \in
                Ids(VisibleEvents(oeEvents, oeSort, "past", oeMemoAt))
              <=> oeEvents[i].id \notin
                Ids(VisibleEvents(oeEvents, oeSort, "upcoming", oeMemoAt))
    /\ Ids(oeVisible) \subseteq Ids(oeEvents)
    /\ Len(oeVisible) = Cardinality(Ids(oeVisible))
    /\ KeepsOrder(oeVisible, SortEvents(oeEvents, oeSort))

\* an event that ended since the list was computed is still shown as
\* upcoming, next to one that has not ended
C26_Witness ==
    /\ oeFilter = "upcoming"
    /\ oeMemoAt < oeNow
    /\ \E i \in 1..Len(oeVisible) : oeVisible[i].endAt < oeNow
    /\ \E i \in 1..Len(oeEvents) : oeEvents[i].endAt = oeMemoAt
    /\ Len(oeVisible) = 2

\* ===== listing view: useDebouncedValue, HomePage (src/src/app/page.tsx)
Delay == 2                           \* the debounce delay, in clock steps
SearchTexts == {<<>>, <<"a">>, <<"a", " ">>, <<"b">>}
CategoryTexts == {<<>>, <<"m">>}
LocationTexts == {<<>>, <<"j">>}
ItemCounts == {0, 1}                 \* res.items.length
LoadFailures == {"m1", ""}           \* e.message of a rejected request
HpNoData == [of |-> 0, items |-> 0]  \* data when it is null
Unsettled == [settled |-> FALSE, data |-> HpNoData, err |-> Null]

\* the queryString memo: the trimmed inputs that are not empty
QueryString(dq, category, location) ==
    [q |-> Trim(dq), category |-> Trim(category),
     location |-> Trim(location)]

SetTimerMut(timers, value) ==
    timers \cup {[value |-> value, left |-> Delay]}

\* the effect of useDebouncedValue on a change of value: the cleanup clears
\* the earlier timer, then a new one is set
SetTimer(timers, value) ==
    {[value |-> value, left |-> Delay]}

\* the effect on [queryString], run when the query string has changed:
\* load() sets loading, clears err and issues the request
HpQueryEffect(dq, category, location) ==
    LET qs == QueryString(dq, category, location)
    IN IF qs = QueryString(hpDq, hpCategory, hpLocation)
         THEN UNCHANGED <<hpLoading, hpErr, hpReqs, hpLastQs, hpLatest,
                          nHpReqs>>
       ELSE /\ hpLoading' = TRUE
            /\ hpErr' = Null
            /\ hpReqs' = hpReqs \cup {[n |-> nHpReqs + 1, qs |-> qs]}
            /\ hpLastQs' = qs
            /\ hpLatest' = Unsettled
            /\ nHpReqs' = nHpReqs + 1

\* the search input changes: setQ(value); the debounce timer restarts
HpType(value) ==
    /\ nHpInputs < MaxHpInputs
    /\ value # hpQ
    /\ hpQ' = value
    /\ hpTimers' = SetTimer(hpTimers, value)
    /\ hpSince' = 0
    /\ nHpInputs' = nHpInputs + 1
    /\ UNCHANGED <<hpCategory, hpLocation, hpDq, hpData, hpLoading, hpErr,
                   hpReqs, hpLastQs, hpLatest, nHpReqs>>

\* the category input changes: setCategory(value)
HpSetCategory(value) ==
    /\ nHpInputs < MaxHpInputs
    /\ value # hpCategory
    /\ hpCategory' = value
    /\ HpQueryEffect(hpDq, value, hpLocation)
    /\ nHpInputs' = nHpInputs + 1
    /\ UNCHANGED <<hpQ, hpLocation, hpDq, hpTimers, hpSince, hpData>>

\* the location input changes: setLocation(value)
HpSetLocation(value) ==
    /\ nHpInputs < MaxHpInputs
    /\ value # hpLocation
    /\ hpLocation' = value
    /\ HpQueryEffect(hpDq, hpCategory, value)
    /\ nHpInputs' = nHpInputs + 1
    /\ UNCHANGED <<hpQ, hpCategory, hpDq, hpTimers, hpSince, hpData>>

\* one step of the clock while a timer is running
HpTick ==
    /\ \E t \in hpTimers : t.left > 0
    /\ hpTimers' = {[t EXCEPT !.left = IF t.left > 0 THEN t.left - 1 ELSE 0] :
                      t \in hpTimers}
    /\ hpSince' = IF hpSince < Delay THEN hpSince + 1 ELSE Delay
    /\ UNCHANGED <<hpQ, hpCategory, hpLocation, hpDq, hpData, hpLoading,
                   hpErr, hpReqs, hpLastQs, hpLatest, nHpReqs, nHpInputs>>

\* a timer whose delay has run out fires: setDebounced(value)
HpFire(t) ==
    /\ t \in hpTimers
    /\ t.left = 0
    /\ hpTimers' = hpTimers \ {t}
    /\ hpDq' = t.value
    /\ HpQueryEffect(t.value, hpCategory, hpLocation)
    /\ UNCHANGED <<hpQ, hpCategory, hpLocation, hpSince, hpData, nHpInputs>>

\* what the request issued last settled with, recorded when it is r
LatestAfter(r, data, shown) ==
    IF r.n = nHpReqs THEN [settled |-> TRUE, data |-> data, err |-> shown]
    ELSE hpLatest

\* a request resolves: setData(res), then setLoading(false)
HpLoadOk(r, items) ==
    /\ r \in hpReqs
    /\ hpReqs' = hpReqs \ {r}
    /\ hpData' = [of |-> r.n, items |-> items]
    /\ hpLoading' = FALSE
    /\ hpLatest' = LatestAfter(r, [of |-> r.n, items |-> items], Null)
    /\ UNCHANGED <<hpQ, hpCategory, hpLocation, hpDq, hpTimers, hpSince,
                   hpErr, hpLastQs, nHpReqs, nHpInputs>>

\* a request rejects: setErr(e.message || "Failed to load events"),
\* setData(null), then setLoading(false)
HpLoadFail(r, msg) ==
    LET shown == IF msg = "" THEN "Failed to load events" ELSE msg
    IN /\ r \in hpReqs
       /\ hpReqs' = hpReqs \ {r}
       /\ hpErr' = shown
       /\ hpData' = HpNoData
       /\ hpLoading' = FALSE
       /\ hpLatest' = LatestAfter(r, HpNoData, shown)
       /\ UNCHANGED <<hpQ, hpCategory, hpLocation, hpDq, hpTimers, hpSince,
                      hpLastQs, nHpReqs, nHpInputs>>

\* what the page renders: the error banner, and one of the loading
\* indicator, the empty-list message and the result cards
HpShown ==
    (IF hpErr # Null THEN {"error"} ELSE {})
      \cup (IF hpLoading THEN {"loading"}
            ELSE IF hpData = HpNoData \/ hpData.items = 0 THEN {"empty"}
            ELSE {"cards"})

HpInit == AuthIdle /\ PagesIdle

HpNext ==
    \/ \E value \in SearchTexts : HpType(value) /\ UNCHANGED exceptHp
    \/ \E value \in CategoryTexts : HpSetCategory(value) /\ UNCHANGED exceptHp
    \/ \E value \in LocationTexts : HpSetLocation(value) /\ UNCHANGED exceptHp
    \/ HpTick /\ UNCHANGED exceptHp
    \/ \E t \in hpTimers : HpFire(t) /\ UNCHANGED exceptHp
    \/ \E r \in hpReqs, items \in ItemCounts :
         HpLoadOk(r, items) /\ UNCHANGED exceptHp
    \/ \E r \in hpReqs, msg \in LoadFailures :
         HpLoadFail(r, msg) /\ UNCHANGED exceptHp

HpSpec == HpInit /\ [][HpNext]_vars

\* time passes and a timer whose delay has run out fires
HpFairSpec ==
    /\ HpSpec
    /\ WF_vars(HpTick /\ UNCHANGED exceptHp)
    /\ WF_vars(\E t \in hpTimers : HpFire(t) /\ UNCHANGED exceptHp)

\* C24: the debounced value changes only to the input, and only when the
\* input has stayed unchanged for the whole delay; typing issues no
\* request, and every request carries the debounced value; in the end the
\* debounced value equals the last input and the request issued last is
\* the one for it.
C24_Debounce ==
    /\ [][ /\ hpDq' # hpDq => (hpSince = Delay /\ hpDq' = hpQ /\ hpQ' = hpQ)
           /\ hpQ' # hpQ => (hpReqs' = hpReqs /\ nHpReqs' = nHpReqs)
           /\ nHpReqs' # nHpReqs =>
                /\ hpLastQs' = QueryString(hpDq', hpCategory', hpLocation')
                /\ [n |-> nHpReqs', qs |-> hpLastQs'] \in hpReqs' ]_vars
    /\ <>[]( /\ hpDq = hpQ
             /\ hpLastQs = QueryString(hpQ, hpCategory, hpLocation) )

\* two values were typed, the first within the delay of the second: only
\* the second reached the debounced value and only it was queried
C24_Witness ==
    /\ hpQ = <<"b">>
    /\ hpDq = <<"b">>
    /\ hpCategory = <<>>
    /\ hpLocation = <<>>
    /\ nHpInputs = 2
    /\ nHpReqs = 2
    /\ hpLastQs.q = <<"b">>

\* C25: exactly one of the loading indicator, the error message, the
\* empty-list message and the result cards is shown; never the error
\* message together with the empty-list message.
C25_OneStateShown ==
    /\ Cardinality(HpShown) = 1
    /\ ~({"error", "empty"} \subseteq HpShown)

\* C28: once no /events request is in flight, data and err are those the
\* request issued last, the one for the current query string, settled
\* with.
C28_LatestResponseShown ==
    hpReqs = {} =>
      /\ hpLastQs = QueryString(hpDq, hpCategory, hpLocation)
      /\ hpLatest.settled
      /\ hpData = hpLatest.data
      /\ hpErr = hpLatest.err

\* ===== organizer dashboard under the auth context: the access effect
\* (src/src/app/organizer/page.tsx, src/src/lib/auth.tsx)

\* authToken = token ?? localStorage.getItem("token")
AuthToken == IF token # Null THEN token ELSE storage

\* the dependencies [loading, user, authToken] as of the current commit
OgDeps ==
    [ran |-> TRUE, loading |-> loading, authToken |-> AuthToken,
     user |-> user]

\* where the access effect navigates to, "none" when it does not
GateTarget ==
    IF loading THEN "none"
    ELSE IF user = NullUser THEN "/login"
    ELSE IF user.role # "ORGANIZER" THEN "/"
    ELSE "none"

\* the access effect runs after the first commit and after every commit
\* that changed one of its dependencies, while the page is there
OgAccessEffect ==
    /\ ogRoute = "none"
    /\ ogSeen # OgDeps
    /\ ogSeen' = OgDeps
    /\ ogRoute' = GateTarget
    /\ IF loading \/ GateTarget # "none"
         THEN UNCHANGED <<ogErr, ogLoads>>
       ELSE IF AuthToken = Null
         THEN /\ ogErr' = "Token tidak ditemukan. Coba logout lalu login lagi."
              /\ UNCHANGED ogLoads
       ELSE /\ ogLoads' = TRUE
            /\ UNCHANGED ogErr

\* the page is loaded under the AuthProvider: the context mounts and
\* resolves the persisted token, the user may log out
GateNext ==
    \/ Mount /\ UNCHANGED pageVars
    \/ TokenEffect /\ UNCHANGED pageVars
    \/ \E r \in BagToSet(meInFlight), me \in Users :
         MeOk(r, me) /\ UNCHANGED pageVars
    \/ \E r \in BagToSet(meInFlight) : MeFail(r) /\ UNCHANGED pageVars
    \/ Logout /\ UNCHANGED pageVars
    \/ OgAccessEffect /\ UNCHANGED exceptOg

GateSpec == Init /\ [][GateNext]_vars

\* the auth context is resolving a persisted token: token present, user
\* null, the token effect or its /auth/me still pending
Resolving ==
    /\ token # Null
    /\ user = NullUser
    /\ (tokenEffects # <<>> \/ meInFlight # EmptyBag)

\* C27: the organizer dashboard does not navigate to /login while the auth
\* context is resolving a persisted token.
C27_NoLoginWhileResolving ==
    [][(ogRoute' = "/login" /\ ogRoute # "/login") => ~Resolving]_vars

\* ===== customer dashboard: uploadProof and the payment countdown
\* (src/unnamed/part_011)
NotANumber == 0 - 1                  \* getTime() of an invalid date
CdRoles == {Null, "CUSTOMER", "ORGANIZER"}
CdStatuses == {"WAITING_FOR_PAYMENT", "WAITING_FOR_ADMIN_CONFIRMATION"}
DueTimes == {NotANumber, 1000, 1500} \* new Date(paymentDueAt).getTime()
ClockStep == 500                     \* milliseconds a clock step takes
SecureUrls == {"u1"}                 \* up.secureUrl
NoTrx == [id |-> 0, status |-> Null, due |-> 0]

\* the transactions /transactions/me can answer with
CdTransactions ==
    {[id |-> 1, status |-> s, due |-> d] : s \in CdStatuses, d \in DueTimes}

UploadErrorMut(tok, role, trx, now, file) ==
    IF tok = Null THEN "Kamu belum login."
    ELSE IF role # "CUSTOMER"
      THEN "Akses ditolak. Hanya CUSTOMER yang bisa upload bukti pembayaran."
    ELSE IF trx.status # "WAITING_FOR_PAYMENT"
      THEN "Transaksi ini tidak sedang menunggu pembayaran."
    ELSE IF file = Null THEN "Pilih file dulu."
    ELSE Null

\* the checks of uploadProof: the error it sets, Null when it goes on
UploadError(tok, role, trx, now, file) ==
    IF tok = Null THEN "Kamu belum login."
    ELSE IF role # "CUSTOMER"
      THEN "Akses ditolak. Hanya CUSTOMER yang bisa upload bukti pembayaran."
    ELSE IF trx.status # "WAITING_FOR_PAYMENT"
      THEN "Transaksi ini tidak sedang menunggu pembayaran."
    ELSE IF trx.due # NotANumber /\ now > trx.due
      THEN "Waktu pembayaran sudah habis. Transaksi akan kadaluarsa."
    ELSE IF file = Null THEN "Pilih file dulu."
    ELSE Null

\* the countdown is shown for a transaction waiting for payment whose
\* deadline is a date
CountdownShown(trx) ==
    trx.status = "WAITING_FOR_PAYMENT" /\ trx.due # NotANumber

\* Math.max(0, Math.floor((dueMs - nowTs) / 1000))
RemainingSeconds(trx, nowTs) ==
    LET s == (trx.due - nowTs) \div 1000
    IN IF s > 0 THEN s ELSE 0

\* canUpload of the render: waiting for payment and not expired
CanUpload(trx, nowTs) ==
    /\ trx.status = "WAITING_FOR_PAYMENT"
    /\ ~(CountdownShown(trx) /\ RemainingSeconds(trx, nowTs) <= 0)

\* the auth context hands over another session
CdUseAuth(tok, role) ==
    /\ <<tok, role>> # <<cdToken, cdRole>>
    /\ tok = Null => role = Null
    /\ cdToken' = tok
    /\ cdRole' = role
    /\ UNCHANGED <<cdTrx, cdFile, cdPreview, cdNow, cdNowTs, cdErr, cdUploadingId,
                   cdStage, cdPosted, nCdClicks>>

\* loadTransactions of the access effect or of Refresh resolved:
\* setItems(res.items)
CdItems(trx) ==
    /\ cdStage = "idle"
    /\ trx # cdTrx
    /\ cdTrx' = trx
    /\ UNCHANGED <<cdToken, cdRole, cdFile, cdPreview, cdNow, cdNowTs, cdErr,
                   cdUploadingId, cdStage, cdPosted, nCdClicks>>

\* Upload Proof is clicked (enabled while canUpload) and the file dialog
\* closes with a file or without one: onFileChange
CdPickFile(f) ==
    /\ cdTrx # NoTrx
    /\ CanUpload(cdTrx, cdNowTs)
    /\ f # cdFile
    /\ cdFile' = f
    /\ cdPreview' = IF f # Null THEN TRUE ELSE cdPreview
    /\ UNCHANGED <<cdToken, cdRole, cdTrx, cdNow, cdNowTs, cdErr,
                   cdUploadingId, cdStage, cdPosted, nCdClicks>>

\* the clock moves on
CdTick ==
    /\ cdNow < ClockStep * MaxCdTicks
    /\ cdNow' = cdNow + ClockStep
    /\ UNCHANGED <<cdToken, cdRole, cdTrx, cdFile, cdPreview, cdNowTs, cdErr,
                   cdUploadingId, cdStage, cdPosted, nCdClicks>>

\* the interval fires: setNowTs(Date.now())
CdInterval ==
    /\ cdNowTs # cdNow
    /\ cdNowTs' = cdNow
    /\ UNCHANGED <<cdToken, cdRole, cdTrx, cdFile, cdPreview, cdNow, cdErr,
                   cdUploadingId, cdStage, cdPosted, nCdClicks>>

\* Submit Proof is clicked (shown with the preview of a picked file,
\* disabled while this transaction is uploading): uploadProof(trx) up to
\* its first await
CdUploadProof ==
    LET e == UploadError(cdToken, cdRole, cdTrx, cdNow, cdFile)
    IN /\ nCdClicks < MaxCdClicks
       /\ cdTrx # NoTrx
       /\ cdPreview
       /\ cdUploadingId # cdTrx.id
       /\ nCdClicks' = nCdClicks + 1
       /\ cdErr' = e
       /\ IF e = Null
            THEN /\ cdUploadingId' = cdTrx.id
                 /\ cdStage' = "upload"
          ELSE UNCHANGED <<cdUploadingId, cdStage>>
       /\ UNCHANGED <<cdToken, cdRole, cdTrx, cdFile, cdPreview, cdNow, cdNowTs,
                      cdPosted>>

\* uploadToCloudinary resolved: the proof URL is posted
CdUploadOk(url) ==
    /\ cdStage = "upload"
    /\ cdStage' = "post"
    /\ cdPosted' = Append(cdPosted, url)
    /\ UNCHANGED <<cdToken, cdRole, cdTrx, cdFile, cdPreview, cdNow, cdNowTs, cdErr,
                   cdUploadingId, nCdClicks>>

\* uploadToCloudinary or the POST rejected: catch, finally
CdFail(msg) ==
    /\ cdStage \in {"upload", "post"}
    /\ cdStage' = "idle"
    /\ cdErr' = msg
    /\ cdUploadingId' = 0
    /\ UNCHANGED <<cdToken, cdRole, cdTrx, cdFile, cdPreview, cdNow, cdNowTs,
                   cdPosted, nCdClicks>>

\* the POST resolved: loadTransactions() starts with setErr(null)
CdPostOk ==
    /\ cdStage = "post"
    /\ cdStage' = "reload"
    /\ cdErr' = Null
    /\ UNCHANGED <<cdToken, cdRole, cdTrx, cdFile, cdPreview, cdNow, cdNowTs,
                   cdUploadingId, cdPosted, nCdClicks>>

\* loadTransactions resolved with setItems(res.items); the selected file
\* and its preview are dropped; finally
CdReloadOk(trx) ==
    /\ cdStage = "reload"
    /\ cdStage' = "idle"
    /\ cdTrx' = trx
    /\ cdFile' = Null
    /\ cdPreview' = FALSE
    /\ cdUploadingId' = 0
    /\ UNCHANGED <<cdToken, cdRole, cdNow, cdNowTs, cdErr, cdPosted,
                   nCdClicks>>

\* loadTransactions caught a rejection: setErr; uploadProof goes on as
\* after a resolved load
CdReloadFail(msg) ==
    /\ cdStage = "reload"
    /\ cdStage' = "idle"
    /\ cdErr' = IF msg = "" THEN "Failed to load transactions." ELSE msg
    /\ cdFile' = Null
    /\ cdPreview' = FALSE
    /\ cdUploadingId' = 0
    /\ UNCHANGED <<cdToken, cdRole, cdTrx, cdNow, cdNowTs, cdPosted,
                   nCdClicks>>

CdInit == AuthIdle /\ PagesIdle

CdNext ==
    \/ \E tok \in {Null, "tA"}, role \in CdRoles :
         CdUseAuth(tok, role) /\ UNCHANGED exceptCd
    \/ \E trx \in CdTransactions : CdItems(trx) /\ UNCHANGED exceptCd
    \/ \E f \in {Null, "f1"} : CdPickFile(f) /\ UNCHANGED exceptCd
    \/ CdTick /\ UNCHANGED exceptCd
    \/ CdInterval /\ UNCHANGED exceptCd
    \/ CdUploadProof /\ UNCHANGED exceptCd
    \/ \E url \in SecureUrls : CdUploadOk(url) /\ UNCHANGED exceptCd
    \/ \E msg \in {"m1"} : CdFail(msg) /\ UNCHANGED exceptCd
    \/ CdPostOk /\ UNCHANGED exceptCd
    \/ \E trx \in CdTransactions : CdReloadOk(trx) /\ UNCHANGED exceptCd
    \/ \E msg \in LoadFailures : CdReloadFail(msg) /\ UNCHANGED exceptCd

CdSpec == CdInit /\ [][CdNext]_vars

\* the conditions the claim names, at the moment of the click
UploadAllowed ==
    /\ cdToken # Null
    /\ cdRole = "CUSTOMER"
    /\ cdTrx.status = "WAITING_FOR_PAYMENT"
    /\ ~(cdTrx.due # NotANumber /\ cdNow > cdTrx.due)
    /\ cdFile # Null

====
